---------------------------- MODULE Spec2Model ----------------------------
(***************************************************************************)
(* Model of zebra/zebra_vty.c: the static route command handlers           *)
(* (ip route, ipv6 route, ip mroute) around zebra_static_route, the        *)
(* static table they drive, and the environment they read (VRFs, the       *)
(* interface table, the MPLS switch); and the read commands (show ip       *)
(* route and its address, prefix and summary forms, for one VRF and for    *)
(* all) over the route tables of the RIB.                                  *)
(*                                                                         *)
(* C strings are TLA+ strings; NULL is a value no command text equals.     *)
(* Addresses are tuples of octets.                                         *)
(***************************************************************************)
EXTENDS Integers, Sequences, FiniteSets, TLC

VARIABLES
    vrfs,          \* names of the VRFs that are defined besides the default
    ifs,           \* interface table: set of <<vrf_id, ifname>> that exist
    mpls_enabled,  \* the global mpls_enabled
    stable,        \* the static table: set of static route descriptors
    rib,           \* the RIB: per VRF name its id and its route tables
    last,          \* the call whose result is on the vty (with the call
                   \* made right before it), or NoCall at the prompt
    globals        \* the daemon's global settings, and the number of
                   \* MTYPE_ROUTE_MAP_NAME allocations that are held

vars == <<vrfs, ifs, mpls_enabled, stable, rib, last, globals>>

-----------------------------------------------------------------------------
(* Values of the C program                                                 *)

NULL == "<NULL>"

AFI_IP == "AFI_IP"
AFI_IP6 == "AFI_IP6"
SAFI_UNICAST == "SAFI_UNICAST"
SAFI_MULTICAST == "SAFI_MULTICAST"
SAFI_MPLS_VPN == "SAFI_MPLS_VPN"
AF_INET == "AF_INET"
AF_INET6 == "AF_INET6"

CMD_SUCCESS == "CMD_SUCCESS"

\* What a command comes to when it dereferences a NULL pointer: the daemon
\* is killed.
SIGSEGV == "SIGSEGV"
CMD_WARNING_CONFIG_FAILED == "CMD_WARNING_CONFIG_FAILED"

STATIC_IFINDEX == "STATIC_IFINDEX"
STATIC_IPV4_GATEWAY == "STATIC_IPV4_GATEWAY"
STATIC_IPV4_GATEWAY_IFINDEX == "STATIC_IPV4_GATEWAY_IFINDEX"
STATIC_BLACKHOLE == "STATIC_BLACKHOLE"
STATIC_IPV6_GATEWAY == "STATIC_IPV6_GATEWAY"
STATIC_IPV6_GATEWAY_IFINDEX == "STATIC_IPV6_GATEWAY_IFINDEX"

ZEBRA_FLAG_BLACKHOLE == "ZEBRA_FLAG_BLACKHOLE"
ZEBRA_FLAG_REJECT == "ZEBRA_FLAG_REJECT"

ZEBRA_STATIC_DISTANCE_DEFAULT == 1
IFINDEX_DELETED == 2147483647

VRF_DEFAULT == 0
VRF_DEFAULT_NAME == "Default-IP-Routing-Table"

\* afi2family(afi)
afi2family(afi) == IF afi = AFI_IP THEN AF_INET ELSE AF_INET6

-----------------------------------------------------------------------------
(* Characters of the strings the handler looks into (ifname, flag_str).    *)

Chars(s) ==
    CASE s = "Null0"     -> <<"N", "u", "l", "l", "0">>
      [] s = "null0"     -> <<"n", "u", "l", "l", "0">>
      [] s = "NULL0"     -> <<"N", "U", "L", "L", "0">>
      [] s = "Nu"        -> <<"N", "u">>
      [] s = "n"         -> <<"n">>
      [] s = "Null00"    -> <<"N", "u", "l", "l", "0", "0">>
      [] s = "eth0"      -> <<"e", "t", "h", "0">>
      [] s = "eth1"      -> <<"e", "t", "h", "1">>
      [] s = "reject"    -> <<"r", "e", "j", "e", "c", "t">>
      [] s = "Reject"    -> <<"R", "e", "j", "e", "c", "t">>
      [] s = "blackhole" -> <<"b", "l", "a", "c", "k", "h", "o", "l", "e">>
      [] s = "xflag"     -> <<"x", "f", "l", "a", "g">>
      [] s = "unknown"   -> <<"u", "n", "k", "n", "o", "w", "n">>

\* tolower(3) on the characters that occur
tolower(c) ==
    CASE c = "N" -> "n"
      [] c = "U" -> "u"
      [] c = "L" -> "l"
      [] c = "R" -> "r"
      [] c = "B" -> "b"
      [] OTHER   -> c

\* The character of s at position i (1-based), "\\0" at and past its end.
CharAt(s, i) == IF i <= Len(s) THEN s[i] ELSE "NUL"

\* strncasecmp(3): 0 when the first n characters of s1 and s2 (up to a NUL)
\* agree ignoring case, 1 otherwise (the sign of a difference is not used).
strncasecmp(s1, s2, n) ==
    IF \A i \in 1..n :
          (\A j \in 1..(i - 1) : CharAt(s1, j) # "NUL")
              => tolower(CharAt(s1, i)) = tolower(CharAt(s2, i))
    THEN 0 ELSE 1

\* strlen(3)
strlen(s) == Len(Chars(s))

-----------------------------------------------------------------------------
(* Parsers of the library                                                  *)

V6(a, b, c, d, last2) ==
    <<a, b, c, d, 0, 0, 0, 0, 0, 0, 0, 0, 0, 0, last2[1], last2[2]>>

PrefixFail == [ret |-> 0, family |-> NULL, addr |-> <<>>, prefixlen |-> 0]

\* str2prefix(str, &p): ret > 0 and the prefix, or ret <= 0.  A text without
\* "/len" is a host prefix.
str2prefix(s) ==
    CASE s = "10.0.0.0/8" ->
           [ret |-> 1, family |-> AF_INET, addr |-> <<10, 0, 0, 0>>, prefixlen |-> 8]
      [] s = "10.1.2.3/8" ->
           [ret |-> 1, family |-> AF_INET, addr |-> <<10, 1, 2, 3>>, prefixlen |-> 8]
      [] s = "10.1.2.3" ->
           [ret |-> 1, family |-> AF_INET, addr |-> <<10, 1, 2, 3>>, prefixlen |-> 32]
      [] s = "2001:db8::/32" ->
           [ret |-> 1, family |-> AF_INET6, addr |-> V6(32, 1, 13, 184, <<0, 0>>),
            prefixlen |-> 32]
      [] s = "2001:db8::1/32" ->
           [ret |-> 1, family |-> AF_INET6, addr |-> V6(32, 1, 13, 184, <<0, 1>>),
            prefixlen |-> 32]
      [] s = "2001:db9::/32" ->
           [ret |-> 1, family |-> AF_INET6, addr |-> V6(32, 1, 13, 185, <<0, 0>>),
            prefixlen |-> 32]
      [] s = "10.1.0.0/16" ->
           [ret |-> 1, family |-> AF_INET, addr |-> <<10, 1, 0, 0>>, prefixlen |-> 16]
      [] s = "10.1.0.0/24" ->
           [ret |-> 1, family |-> AF_INET, addr |-> <<10, 1, 0, 0>>, prefixlen |-> 24]
      [] s = "192.0.2.1" ->
           [ret |-> 1, family |-> AF_INET, addr |-> <<192, 0, 2, 1>>, prefixlen |-> 32]
      [] s = "2001:db8::1" ->
           [ret |-> 1, family |-> AF_INET6, addr |-> V6(32, 1, 13, 184, <<0, 1>>),
            prefixlen |-> 128]
      [] s = "2001:db8::/48" ->
           [ret |-> 1, family |-> AF_INET6, addr |-> V6(32, 1, 13, 184, <<0, 0>>),
            prefixlen |-> 48]
      [] OTHER -> PrefixFail

\* inet_aton(3): 1 and the address, or 0.
inet_aton(s) ==
    CASE s = "255.0.0.0"     -> [ret |-> 1, addr |-> <<255, 0, 0, 0>>]
      [] s = "255.255.0.0"   -> [ret |-> 1, addr |-> <<255, 255, 0, 0>>]
      [] s = "255.255.255.0" -> [ret |-> 1, addr |-> <<255, 255, 255, 0>>]
      [] OTHER               -> [ret |-> 0, addr |-> <<>>]

\* Number of leading one bits of an octet.
OctetOnes(b) ==
    CASE b = 255 -> 8 [] b >= 254 -> 7 [] b >= 252 -> 6 [] b >= 248 -> 5
      [] b >= 240 -> 4 [] b >= 224 -> 3 [] b >= 192 -> 2 [] b >= 128 -> 1
      [] OTHER -> 0

RECURSIVE LeadingOnes(_, _)
LeadingOnes(addr, i) ==
    IF i > Len(addr) THEN 0
    ELSE IF addr[i] = 255 THEN 8 + LeadingOnes(addr, i + 1)
    ELSE OctetOnes(addr[i])

\* ip_masklen(netmask): the length of the mask's run of leading ones
ip_masklen(mask) == LeadingOnes(mask, 1)

\* maskbit[] of lib/prefix.c applied to an octet: keep its first n bits
MaskOctet(b, n) == b - (b % (2 ^ (8 - n)))

\* apply_mask(p): clear the bits past the prefix length
apply_mask(p) ==
    [p EXCEPT !.addr =
        [i \in 1..Len(p.addr) |->
            LET index == p.prefixlen \div 8
                offset == p.prefixlen % 8
            IN  IF i - 1 < index THEN p.addr[i]
                ELSE IF i - 1 = index THEN MaskOctet(p.addr[i], offset)
                ELSE 0]]

\* inet_pton(3): 1 and the address when the text is an address of the family
inet_pton(family, s) ==
    CASE family = AF_INET /\ s = "192.0.2.1" ->
           [ret |-> 1, addr |-> <<192, 0, 2, 1>>]
      [] family = AF_INET /\ s = "192.0.2.2" ->
           [ret |-> 1, addr |-> <<192, 0, 2, 2>>]
      [] family = AF_INET6 /\ s = "2001:db8::1" ->
           [ret |-> 1, addr |-> V6(32, 1, 13, 184, <<0, 1>>)]
      [] OTHER -> [ret |-> 0, addr |-> <<>>]

\* atoi(3) / strtoul(3) on the numbers the commands are given
atoi(s) ==
    CASE s = "1" -> 1 [] s = "2" -> 2 [] s = "5" -> 5 [] s = "7" -> 7 [] s = "9" -> 9
      [] s = "255" -> 255 [] OTHER -> 0

\* mpls_str2label(label_str, &num_labels, labels): 0 and the labels, -1 for a
\* malformed text, -2 for a reserved label, -3 for too many labels
mpls_str2label(s) ==
    CASE s = "16"       -> [rc |-> 0, labels |-> <<16>>]
      [] s = "16,17"    -> [rc |-> 0, labels |-> <<16, 17>>]
      [] s = "3"        -> [rc |-> -2, labels |-> <<>>]
      [] s = "16,17,18" -> [rc |-> -3, labels |-> <<>>]
      [] OTHER          -> [rc |-> -1, labels |-> <<>>]

-----------------------------------------------------------------------------
(* The environment the handler reads                                       *)

Env == [vrfs |-> vrfs, ifs |-> ifs, mpls_enabled |-> mpls_enabled]

\* The id a VRF was created with.
VrfIdOf(name) == IF name = VRF_DEFAULT_NAME THEN VRF_DEFAULT ELSE 1

\* The index the kernel gave an interface.
KernelIfIndex(name) == CASE name = "eth0" -> 2 [] name = "eth1" -> 3 [] OTHER -> 4

NoVrf == [found |-> FALSE, name |-> NULL, vrf_id |-> VRF_DEFAULT]

\* zebra_vrf_lookup_by_name(name): a NULL name is the default VRF, which
\* always exists; NoVrf stands for the NULL result.
zebra_vrf_lookup_by_name(name, e) ==
    LET n == IF name = NULL THEN VRF_DEFAULT_NAME ELSE name
    IN  IF n = VRF_DEFAULT_NAME \/ n \in e.vrfs
        THEN [found |-> TRUE, name |-> n, vrf_id |-> VrfIdOf(n)]
        ELSE NoVrf

\* if_lookup_by_name(ifname, vrf_id): the interface of that exact name in the
\* VRF's table, or NULL (found = FALSE).
if_lookup_by_name(ifname, vrf_id, e) ==
    IF <<vrf_id, ifname>> \in e.ifs
    THEN [found |-> TRUE, ifindex |-> KernelIfIndex(ifname)]
    ELSE [found |-> FALSE, ifindex |-> 0]

-----------------------------------------------------------------------------
(* The static table (zebra_static.c)                                       *)

NoPrefix == [family |-> NULL, addr |-> <<>>, prefixlen |-> 0]
NoGate == <<>>

\* The identity of a descriptor or of a request: destination, source,
\* nexthop identity (type, gateway, interface index) and VRF, within the
\* table of its (AFI, SAFI).
Identity(d) ==
    <<d.afi, d.safi, d.vrf_id, d.p, d.src_p, d.type, d.gate, d.ifindex>>

Descriptor(r) ==
    [afi |-> r.afi, safi |-> r.safi, vrf_id |-> r.vrf_id, p |-> r.p,
     src_p |-> r.src_p, type |-> r.type, gate |-> r.gate,
     ifindex |-> r.ifindex, ifname |-> r.ifname, flags |-> r.flags,
     tag |-> r.tag, distance |-> r.distance, snh_label |-> r.snh_label]

\* static_add_route: a descriptor of the same identity is overwritten.
static_add_route(tbl, r) ==
    {d \in tbl : Identity(d) # Identity(r)} \cup {Descriptor(r)}

\* static_delete_route: the descriptor of that identity is removed; nothing
\* happens when there is none.
static_delete_route(tbl, r) ==
    {d \in tbl : Identity(d) # Identity(r)}

-----------------------------------------------------------------------------
(* zebra_static_route, statement by statement.  A context c holds the      *)
(* function's parameters and locals; c.ret is NULL until a return          *)
(* statement is executed, and every later statement is then skipped.       *)

Locals(afi, safi, a, e, tbl) ==
    [afi |-> afi, safi |-> safi, a |-> a, e |-> e, stable |-> tbl,
     ret |-> NULL, err |-> NULL, out |-> <<>>, req |-> <<>>,
     p |-> NoPrefix, src_p |-> NoPrefix, gatep |-> NoGate,
     flag |-> {}, tag |-> 0, distance |-> 0, zvrf |-> NoVrf,
     ifindex |-> 0, ifname |-> a.ifname, type |-> NULL, snh_label |-> <<>>]

\* vty_out(...); return CMD_WARNING_CONFIG_FAILED;  err names the return
\* statement.
Return_failed(c, err, msg) ==
    [c EXCEPT !.ret = CMD_WARNING_CONFIG_FAILED, !.err = err,
              !.out = Append(c.out, msg)]

\* ret = str2prefix(dest_str, &p); if (ret <= 0) ...
Stmt_dest(c) ==
    IF c.ret # NULL THEN c ELSE
    LET r == str2prefix(c.a.dest)
    IN  IF r.ret <= 0
        THEN Return_failed(c, "MalformedAddress", "% Malformed address")
        ELSE [c EXCEPT !.p = [family |-> r.family, addr |-> r.addr,
                              prefixlen |-> r.prefixlen]]

\* switch (afi): the IPv4 mask form, the IPv6 source prefix
Stmt_afi(c) ==
    IF c.ret # NULL THEN c ELSE
    IF c.afi = AFI_IP THEN
        IF c.a.mask # NULL THEN
            LET m == inet_aton(c.a.mask)
            IN  IF m.ret = 0
                THEN Return_failed(c, "MalformedMask", "% Malformed address")
                ELSE [c EXCEPT !.p.prefixlen = ip_masklen(m.addr)]
        ELSE c
    ELSE IF c.afi = AFI_IP6 THEN
        IF c.a.src # NULL THEN
            LET r == str2prefix(c.a.src)
            IN  IF r.ret <= 0 \/ r.family # AF_INET6
                THEN Return_failed(c, "MalformedSourceAddress",
                                   "% Malformed source address")
                ELSE [c EXCEPT !.src_p = [family |-> r.family, addr |-> r.addr,
                                          prefixlen |-> r.prefixlen]]
        ELSE c
    ELSE c

\* apply_mask(&p); distance; tag
Stmt_mask_distance_tag(c) ==
    IF c.ret # NULL THEN c ELSE
    [c EXCEPT !.p = apply_mask(c.p),
              !.distance = IF c.a.distance # NULL
                           THEN atoi(c.a.distance) % 256
                           ELSE ZEBRA_STATIC_DISTANCE_DEFAULT,
              !.tag = IF c.a.tag # NULL THEN atoi(c.a.tag) ELSE 0]

\* zvrf = zebra_vrf_lookup_by_name(vrf_id_str); if (!zvrf) ...
Stmt_vrf(c) ==
    IF c.ret # NULL THEN c ELSE
    LET z == zebra_vrf_lookup_by_name(c.a.vrf, c.e)
    IN  IF ~z.found
        THEN Return_failed(c, "VrfNotDefined", "% vrf is not defined")
        ELSE [c EXCEPT !.zvrf = z]

\* Stmt_labels that only warns when MPLS is off and goes on without labels.
Stmt_labels_WarnOnly(c) ==
    IF c.ret # NULL THEN c ELSE
    IF c.a.label = NULL THEN c ELSE
    IF ~c.e.mpls_enabled
    THEN [c EXCEPT !.out = Append(c.out,
                      "% MPLS not turned on in kernel, ignoring command")]
    ELSE LET l == mpls_str2label(c.a.label)
         IN  IF l.rc < 0
             THEN Return_failed(c, "MalformedLabel", "% Malformed label(s)")
             ELSE [c EXCEPT !.snh_label = l.labels]

\* Labels: if (label_str) { if (!mpls_enabled) ...; mpls_str2label ... }
Stmt_labels(c) ==
    IF c.ret # NULL THEN c ELSE
    IF c.a.label = NULL THEN c ELSE
    IF ~c.e.mpls_enabled
    THEN Return_failed(c, "MplsDisabled",
                       "% MPLS not turned on in kernel, ignoring command")
    ELSE LET l == mpls_str2label(c.a.label)
         IN  IF l.rc < 0
             THEN CASE l.rc = -1 ->
                         Return_failed(c, "MalformedLabel", "% Malformed label(s)")
                    [] l.rc = -2 ->
                         Return_failed(c, "ReservedLabel",
                                       "% Cannot use reserved label(s)")
                    [] l.rc = -3 ->
                         Return_failed(c, "TooManyLabels", "% Too many labels")
             ELSE [c EXCEPT !.snh_label = l.labels]

\* IsNull0 that compares the whole name, as strcasecmp(3) does.
IsNull0_Whole(ifname) ==
    /\ ifname # NULL
    /\ strncasecmp(Chars(ifname), Chars("Null0"), strlen(ifname) + 1) = 0

\* (ifname != NULL) && (strncasecmp(ifname, "Null0", strlen(ifname)) == 0)
IsNull0(ifname) ==
    /\ ifname # NULL
    /\ strncasecmp(Chars(ifname), Chars("Null0"), strlen(ifname)) = 0

\* Stmt_null0 that lets a flag token through.
Stmt_null0_AllowFlag(c) ==
    IF c.ret # NULL THEN c ELSE
    IF IsNull0(c.ifname)
    THEN [c EXCEPT !.flag = c.flag \cup {ZEBRA_FLAG_BLACKHOLE},
                   !.ifname = NULL]
    ELSE c

\* Null0 static route.
Stmt_null0(c) ==
    IF c.ret # NULL THEN c ELSE
    IF IsNull0(c.ifname) THEN
        IF c.a.flag # NULL
        THEN Return_failed(c, "FlagWithNull0", "% can not have flag with Null0")
        ELSE [c EXCEPT !.flag = c.flag \cup {ZEBRA_FLAG_BLACKHOLE},
                       !.ifname = NULL]
    ELSE c

\* Route flags: switch (flag_str[0])
Stmt_flags(c) ==
    IF c.ret # NULL THEN c ELSE
    IF c.a.flag = NULL THEN c ELSE
    LET ch == Chars(c.a.flag)[1]
    IN  IF ch \in {"r", "R"}
        THEN [c EXCEPT !.flag = c.flag \cup {ZEBRA_FLAG_REJECT}]
        ELSE IF ch \in {"b", "B"}
        THEN [c EXCEPT !.flag = c.flag \cup {ZEBRA_FLAG_BLACKHOLE}]
        ELSE Return_failed(c, "MalformedFlag", "% Malformed flag")

\* if (gate_str) { if (inet_pton(afi2family(afi), gate_str, &gate) != 1) ... }
Stmt_gate(c) ==
    IF c.ret # NULL THEN c ELSE
    IF c.a.gate = NULL THEN c ELSE
    LET g == inet_pton(afi2family(c.afi), c.a.gate)
    IN  IF g.ret # 1
        THEN Return_failed(c, "MalformedNexthopAddress",
                           "% Malformed nexthop address")
        ELSE [c EXCEPT !.gatep = g.addr]

\* Stmt_ifindex that looks the name up in the default VRF.
Stmt_ifindex_DefaultVrf(c) ==
    IF c.ret # NULL THEN c ELSE
    IF c.ifname = NULL THEN c ELSE
    LET ifp == if_lookup_by_name(c.ifname, VRF_DEFAULT, c.e)
    IN  IF ~ifp.found
        THEN [c EXCEPT !.out = Append(c.out, "% Malformed Interface name"),
                       !.ifindex = IFINDEX_DELETED]
        ELSE [c EXCEPT !.ifindex = ifp.ifindex]

\* if (ifname) { ifp = if_lookup_by_name(...); ... }: an unknown name is
\* reported and kept with IFINDEX_DELETED
Stmt_ifindex(c) ==
    IF c.ret # NULL THEN c ELSE
    IF c.ifname = NULL THEN c ELSE
    LET ifp == if_lookup_by_name(c.ifname, c.zvrf.vrf_id, c.e)
    IN  IF ~ifp.found
        THEN [c EXCEPT !.out = Append(c.out, "% Malformed Interface name"),
                       !.ifindex = IFINDEX_DELETED]
        ELSE [c EXCEPT !.ifindex = ifp.ifindex]

\* NexthopType that always picks the IPv4 types.
NexthopType_Ipv4(afi, gate_str, ifname) ==
    IF gate_str = NULL /\ ifname = NULL THEN STATIC_BLACKHOLE
    ELSE IF gate_str # NULL /\ ifname # NULL THEN STATIC_IPV4_GATEWAY_IFINDEX
    ELSE IF ifname # NULL THEN STATIC_IFINDEX
    ELSE STATIC_IPV4_GATEWAY

\* The if / else-if chain that sets type from gate_str, ifname and afi
NexthopType(afi, gate_str, ifname) ==
    IF gate_str = NULL /\ ifname = NULL THEN STATIC_BLACKHOLE
    ELSE IF gate_str # NULL /\ ifname # NULL THEN
        IF afi = AFI_IP THEN STATIC_IPV4_GATEWAY_IFINDEX
        ELSE STATIC_IPV6_GATEWAY_IFINDEX
    ELSE IF ifname # NULL THEN STATIC_IFINDEX
    ELSE IF afi = AFI_IP THEN STATIC_IPV4_GATEWAY
    ELSE STATIC_IPV6_GATEWAY

\* Stmt_type in which a flag token makes the type blackhole.
Stmt_type_FlagFirst(c) ==
    IF c.ret # NULL THEN c ELSE
    [c EXCEPT !.type = IF c.a.flag # NULL THEN STATIC_BLACKHOLE
                       ELSE NexthopType(c.afi, c.a.gate, c.ifname)]

Stmt_type(c) ==
    IF c.ret # NULL THEN c ELSE
    [c EXCEPT !.type = NexthopType(c.afi, c.a.gate, c.ifname)]

\* Request whose withdraw does not pass the interface index.
Request_DeleteNoIfindex(c, op) ==
    [op |-> op, afi |-> c.afi, safi |-> c.safi, type |-> c.type, p |-> c.p,
     src_p |-> c.src_p, gate |-> c.gatep,
     ifindex |-> IF op = "add" THEN c.ifindex ELSE 0,
     ifname |-> IF op = "add" THEN c.ifname ELSE NULL,
     flags |-> IF op = "add" THEN c.flag ELSE {},
     tag |-> c.tag, distance |-> c.distance, vrf_id |-> c.zvrf.vrf_id,
     snh_label |-> c.snh_label]

\* The arguments of static_add_route / static_delete_route
Request(c, op) ==
    [op |-> op, afi |-> c.afi, safi |-> c.safi, type |-> c.type, p |-> c.p,
     src_p |-> c.src_p, gate |-> c.gatep, ifindex |-> c.ifindex,
     ifname |-> IF op = "add" THEN c.ifname ELSE NULL,
     flags |-> IF op = "add" THEN c.flag ELSE {},
     tag |-> c.tag, distance |-> c.distance, vrf_id |-> c.zvrf.vrf_id,
     snh_label |-> c.snh_label]

\* Stmt_request that fails a withdraw which finds nothing to remove.
Stmt_request_CheckRc(c) ==
    IF c.ret # NULL THEN c ELSE
    IF c.a.negate = NULL
    THEN LET r == Request(c, "add")
         IN  [c EXCEPT !.req = Append(c.req, r),
                       !.stable = static_add_route(c.stable, r),
                       !.ret = CMD_SUCCESS]
    ELSE LET r == Request(c, "delete")
         IN  IF \A d \in c.stable : Identity(d) # Identity(r)
             THEN Return_failed(c, "NoSuchRoute", "% Can't find static route")
             ELSE [c EXCEPT !.req = Append(c.req, r),
                            !.stable = static_delete_route(c.stable, r),
                            !.ret = CMD_SUCCESS]

\* if (!negate) static_add_route(...); else static_delete_route(...);
\* return CMD_SUCCESS;
Stmt_request(c) ==
    IF c.ret # NULL THEN c ELSE
    IF c.a.negate = NULL
    THEN LET r == Request(c, "add")
         IN  [c EXCEPT !.req = Append(c.req, r),
                       !.stable = static_add_route(c.stable, r),
                       !.ret = CMD_SUCCESS]
    ELSE LET r == Request(c, "delete")
         IN  [c EXCEPT !.req = Append(c.req, r),
                       !.stable = static_delete_route(c.stable, r),
                       !.ret = CMD_SUCCESS]

\* Body with the flag switch moved ahead of the label checks.
Body_FlagsBeforeLabels(c) ==
    LET c1 == Stmt_dest(c)
        c2 == Stmt_afi(c1)
        c3 == Stmt_mask_distance_tag(c2)
        c4 == Stmt_vrf(c3)
        c5 == Stmt_flags(c4)
        c6 == Stmt_labels(c5)
        c7 == Stmt_null0(c6)
        c8 == Stmt_gate(c7)
        c9 == Stmt_ifindex(c8)
        c10 == Stmt_type(c9)
    IN  Stmt_request(c10)

\* The statements in the order of the function body
Body(c) ==
    LET c1 == Stmt_dest(c)
        c2 == Stmt_afi(c1)
        c3 == Stmt_mask_distance_tag(c2)
        c4 == Stmt_vrf(c3)
        c5 == Stmt_labels(c4)
        c6 == Stmt_null0(c5)
        c7 == Stmt_flags(c6)
        c8 == Stmt_gate(c7)
        c9 == Stmt_ifindex(c8)
        c10 == Stmt_type(c9)
    IN  Stmt_request(c10)

zebra_static_route(afi, safi, a, e, tbl) == Body(Locals(afi, safi, a, e, tbl))

-----------------------------------------------------------------------------
(* Command handlers                                                        *)

NoCall == [cmd |-> NULL]

\* What a call keeps of the call made right before it (NoCall when the vty
\* was at its prompt).
Prev(l) == IF l = NoCall THEN NoCall ELSE [l EXCEPT !.prev = NoCall]

Args(negate, dest, mask, src, gate, ifname, flag, tag, distance, vrf, label) ==
    [negate |-> negate, dest |-> dest, mask |-> mask, src |-> src,
     gate |-> gate, ifname |-> ifname, flag |-> flag, tag |-> tag,
     distance |-> distance, vrf |-> vrf, label |-> label]

\* A DEFPY body: return zebra_static_route(vty, afi, safi, ...).  The whole
\* call is one step; last keeps what the vty and the RIB saw of it.  cap is
\* the largest static table the model lets the call build.  A command takes
\* keep = TRUE where a call is to be compared with the call made right
\* before it; with keep = FALSE it is entered at the prompt only.
Invoke(cmd, afi, safi, a, cap) ==
    \E c \in {zebra_static_route(afi, safi, a, Env, stable)} :
        /\ Cardinality(c.stable) <= cap
        /\ stable' = c.stable
        /\ last' = [cmd |-> cmd, afi |-> afi, safi |-> safi, a |-> a,
                    before |-> stable, ret |-> c.ret, err |-> c.err,
                    out |-> c.out, req |-> c.req, prev |-> Prev(last)]
        /\ UNCHANGED <<vrfs, ifs, mpls_enabled, rib, globals>>

\* The words the command matcher (lib/command_match.c) takes for the typed
\* tokens A.B.C.D, A.B.C.D/M, X:X::X:X and X:X::X:X/M, among the words the
\* model uses.  INTERFACE, NAME and WORD take any word.
IPV4_TKN == {"10.1.2.3", "192.0.2.1", "192.0.2.2", "255.0.0.0"}
IPV4_PREFIX_TKN == {"10.0.0.0/8", "10.1.2.3/8"}
IPV6_TKN == {"2001:db8::1"}
IPV6_PREFIX_TKN == {"2001:db8::/32", "2001:db8::1/32", "2001:db9::/32"}

\* "<{GATE$gate|INTERFACE$ifname}|null0$ifname|<reject|blackhole>$flag>":
\* a gateway and/or an interface word, or the null0 keyword (an interface
\* word too), or a flag keyword alone.
nexthop_tkns(i, GATE_TKN) ==
    \/ /\ i.gate # NULL \/ i.ifname # NULL
       /\ i.gate # NULL => i.gate \in GATE_TKN
       /\ i.flag = NULL
    \/ /\ i.gate = NULL
       /\ i.ifname = NULL
       /\ i.flag \in {"reject", "blackhole"}

\* "[no] ip mroute A.B.C.D/M$prefix <A.B.C.D$gate|INTERFACE$ifname> [(1-255)$distance]"
ip_mroute_dist_cmd(i) ==
    /\ i.dest \in IPV4_PREFIX_TKN
    /\ \/ i.gate \in IPV4_TKN /\ i.ifname = NULL
       \/ i.gate = NULL /\ i.ifname # NULL

\* "[no] ip route <A.B.C.D/M$prefix|A.B.C.D$prefix A.B.C.D$mask> <...> [{...}]"
ip_route_cmd(i) ==
    /\ \/ i.dest \in IPV4_PREFIX_TKN /\ i.mask = NULL
       \/ i.dest \in IPV4_TKN /\ i.mask \in IPV4_TKN
    /\ nexthop_tkns(i, IPV4_TKN)

\* "[no] ipv6 route X:X::X:X/M$prefix [from X:X::X:X/M] <...> [{...}]"
ipv6_route_cmd(i) ==
    /\ i.dest \in IPV6_PREFIX_TKN
    /\ i.src # NULL => i.src \in IPV6_PREFIX_TKN
    /\ nexthop_tkns(i, IPV6_TKN)

\* DEFPY (ip_mroute_dist)
ip_mroute_dist(In, cap, keep) ==
    /\ keep \/ last = NoCall
    /\ \E i \in In :
          /\ ip_mroute_dist_cmd(i)
          /\ Invoke("ip mroute", AFI_IP, SAFI_MULTICAST,
                    Args(i.negate, i.dest, NULL, NULL, i.gate, i.ifname, NULL,
                         NULL, i.distance, NULL, NULL), cap)

\* DEFPY (ip_route)
ip_route(In, cap, keep) ==
    /\ keep \/ last = NoCall
    /\ \E i \in In :
          /\ ip_route_cmd(i)
          /\ Invoke("ip route", AFI_IP, SAFI_UNICAST,
                    Args(i.negate, i.dest, i.mask, NULL, i.gate, i.ifname,
                         i.flag, i.tag, i.distance, i.vrf, i.label), cap)

\* DEFPY (ipv6_route)
ipv6_route(In, cap, keep) ==
    /\ keep \/ last = NoCall
    /\ \E i \in In :
          /\ ipv6_route_cmd(i)
          /\ Invoke("ipv6 route", AFI_IP6, SAFI_UNICAST,
                    Args(i.negate, i.dest, NULL, i.src, i.gate, i.ifname,
                         i.flag, i.tag, i.distance, i.vrf, i.label), cap)

\* zebra_static_route applied to arguments of its own parameter types: any
\* strings, the ones the command grammars never hand it included.
zebra_static_route_args(afi, In, cap, keep) ==
    /\ keep \/ last = NoCall
    /\ \E i \in In :
          Invoke("zebra_static_route", afi, SAFI_UNICAST,
                 Args(i.negate, i.dest, i.mask, i.src, i.gate, i.ifname,
                      i.flag, i.tag, i.distance, i.vrf, i.label), cap)

\* The command has returned and its output was written: the vty is back at
\* its prompt.  A daemon that was killed takes no further step.
vty_prompt ==
    /\ last # NoCall
    /\ last.ret # SIGSEGV
    /\ last' = NoCall
    /\ UNCHANGED <<vrfs, ifs, mpls_enabled, stable, rib, globals>>

-----------------------------------------------------------------------------
(* The RIB the show commands read: per VRF an id and the route tables of   *)
(* its (AFI, SAFI) pairs.  A table is the set of its route nodes that      *)
(* carry route entries; a node is its prefix, its lock count and the list  *)
(* of its entries (rn->info).                                              *)

VRF_UNKNOWN == 65535

CMD_WARNING == "CMD_WARNING"

ZEBRA_ROUTE_SYSTEM == "ZEBRA_ROUTE_SYSTEM"
ZEBRA_ROUTE_KERNEL == "ZEBRA_ROUTE_KERNEL"
ZEBRA_ROUTE_CONNECT == "ZEBRA_ROUTE_CONNECT"
ZEBRA_ROUTE_STATIC == "ZEBRA_ROUTE_STATIC"
ZEBRA_ROUTE_OSPF == "ZEBRA_ROUTE_OSPF"
ZEBRA_ROUTE_BGP == "ZEBRA_ROUTE_BGP"
ZEBRA_ROUTE_IBGP == "ZEBRA_ROUTE_IBGP"
ZEBRA_ROUTE_TOTAL == "ZEBRA_ROUTE_TOTAL"

ZEBRA_FLAG_SELECTED == "ZEBRA_FLAG_SELECTED"
ZEBRA_FLAG_IBGP == "ZEBRA_FLAG_IBGP"
ROUTE_ENTRY_SELECTED_FIB == "ROUTE_ENTRY_SELECTED_FIB"
NEXTHOP_FLAG_FIB == "NEXTHOP_FLAG_FIB"

\* CHECK_FLAG(V, F)
CHECK_FLAG(v, f) == f \in v

\* The pairs zvrf->table[afi][safi] is indexed by.
TableKeys == {AFI_IP, AFI_IP6} \X {SAFI_UNICAST, SAFI_MULTICAST}

\* A NULL struct route_table pointer, and the table zebra creates.
NoTable == [null |-> TRUE, nodes |-> {}]
NewTable == [null |-> FALSE, nodes |-> {}]

\* A VRF that is enabled has its id and its four tables; a VRF that is only
\* configured has the id VRF_UNKNOWN and no table.  vrf->info is set for
\* every VRF zebra knows.
ActiveVrf(name) ==
    [vrf_id |-> VrfIdOf(name), table |-> [k \in TableKeys |-> NewTable]]
InactiveVrf ==
    [vrf_id |-> VRF_UNKNOWN, table |-> [k \in TableKeys |-> NoTable]]

\* zvrf_id(zvrf)
zvrf_id(r, name) == r[name].vrf_id

\* vrf_lookup_by_id(vrf_id): the name of that VRF, or NULL.
vrf_lookup_by_id(r, vrf_id) ==
    IF \E n \in DOMAIN r : r[n].vrf_id = vrf_id
    THEN CHOOSE n \in DOMAIN r : r[n].vrf_id = vrf_id
    ELSE NULL

\* zebra_vrf_table(afi, safi, vrf_id): NULL when no VRF has that id.
zebra_vrf_table(r, afi, safi, vrf_id) ==
    LET n == vrf_lookup_by_id(r, vrf_id)
    IN  IF n = NULL \/ <<afi, safi>> \notin TableKeys THEN NoTable
        ELSE r[n].table[<<afi, safi>>]

\* An IPv4 prefix and an IPv6 prefix under 2001:db8::/32's neighbourhood.
P4(a, b, c, d, len) ==
    [family |-> AF_INET, addr |-> <<a, b, c, d>>, prefixlen |-> len]
P6(c, d, e, len) ==
    [family |-> AF_INET6,
     addr |-> <<32, 1, c, d, e, 0, 0, 0, 0, 0, 0, 0, 0, 0, 0, 0>>,
     prefixlen |-> len]

\* Bit i (from 0, the most significant first) of an address.
AddrBit(addr, i) == (addr[(i \div 8) + 1] \div (2 ^ (7 - (i % 8)))) % 2

\* prefix_match(n, p): n covers p, i.e. n is not longer than p and the
\* first n->prefixlen bits agree.
prefix_match(n, p) ==
    /\ n.prefixlen <= p.prefixlen
    /\ \A i \in 0..(n.prefixlen - 1) : AddrBit(n.addr, i) = AddrBit(p.addr, i)

\* The order route_top/route_next visit the nodes in: the pre-order of the
\* binary trie, a covering prefix before the ones it covers and the 0 branch
\* before the 1 branch.
RECURSIVE AddrLess(_, _, _)
AddrLess(a, b, i) ==
    IF i > Len(a) THEN FALSE
    ELSE IF a[i] # b[i] THEN a[i] < b[i]
    ELSE AddrLess(a, b, i + 1)

PrefixBefore(p, q) ==
    \/ AddrLess(p.addr, q.addr, 1)
    \/ p.addr = q.addr /\ p.prefixlen < q.prefixlen

\* A NULL struct route_node pointer; a node is named by its prefix.
NoNode == NoPrefix

\* The node of a prefix.
NodeOf(t, p) == CHOOSE n \in t.nodes : n.p = p

\* route_lock_node(node)
route_lock_node(t, p) ==
    [t EXCEPT !.nodes =
        {IF n.p = p THEN [n EXCEPT !.lock = @ + 1] ELSE n : n \in t.nodes}]

\* route_unlock_node(node): the node is deleted with its last reference.
route_unlock_node(t, p) ==
    [t EXCEPT !.nodes =
        {n \in {IF m.p = p THEN [m EXCEPT !.lock = @ - 1] ELSE m : m \in t.nodes} :
            n.lock > 0}]

\* route_top(table): the first node, locked, or NULL.
route_top(t) ==
    IF t.nodes = {} THEN [rn |-> NoNode, t |-> t]
    ELSE LET n == CHOOSE n \in t.nodes :
                      \A m \in t.nodes \ {n} : PrefixBefore(n.p, m.p)
         IN  [rn |-> n.p, t |-> route_lock_node(t, n.p)]

\* route_next(node) and srcdest_route_next(node): the next node, locked, or
\* NULL; the node the walk leaves is unlocked.
route_next(t, p) ==
    LET later == {n \in t.nodes : PrefixBefore(p, n.p)}
    IN  IF later = {} THEN [rn |-> NoNode, t |-> route_unlock_node(t, p)]
        ELSE LET n == CHOOSE n \in later :
                          \A m \in later \ {n} : PrefixBefore(n.p, m.p)
             IN  [rn |-> n.p,
                  t |-> route_unlock_node(route_lock_node(t, n.p), p)]

\* route_node_match(table, p): the longest node with entries that covers p,
\* locked, or NULL.
route_node_match(t, p) ==
    LET covers == {n \in t.nodes : n.info # <<>> /\ prefix_match(n.p, p)}
    IN  IF covers = {} THEN [rn |-> NoNode, t |-> t]
        ELSE LET n == CHOOSE n \in covers :
                          \A m \in covers : m.p.prefixlen <= n.p.prefixlen
             IN  [rn |-> n.p, t |-> route_lock_node(t, n.p)]

-----------------------------------------------------------------------------
(* Events between commands                                                 *)

EnvVrfs == {"red"}
EnvIfNames == {"eth0"}

\* An interface appears in a VRF that exists.
if_add ==
    /\ last = NoCall
    /\ \E v \in {VRF_DEFAULT_NAME} \cup vrfs, n \in EnvIfNames :
          /\ <<VrfIdOf(v), n>> \notin ifs
          /\ ifs' = ifs \cup {<<VrfIdOf(v), n>>}
    /\ UNCHANGED <<vrfs, mpls_enabled, stable, rib, last, globals>>

\* An interface disappears.
if_delete ==
    /\ last = NoCall
    /\ \E x \in ifs : ifs' = ifs \ {x}
    /\ UNCHANGED <<vrfs, mpls_enabled, stable, rib, last, globals>>

\* A VRF is created and enabled.
vrf_create ==
    /\ last = NoCall
    /\ \E v \in EnvVrfs \ vrfs :
          /\ vrfs' = vrfs \cup {v}
          /\ rib' = [n \in DOMAIN rib \cup {v} |->
                        IF n = v THEN ActiveVrf(v) ELSE rib[n]]
    /\ UNCHANGED <<ifs, mpls_enabled, stable, last, globals>>

\* A VRF is torn down, with its interfaces, its static routes and its
\* tables.
vrf_delete ==
    /\ last = NoCall
    /\ \E v \in vrfs :
          /\ vrfs' = vrfs \ {v}
          /\ ifs' = {x \in ifs : x[1] # VrfIdOf(v)}
          /\ stable' = {d \in stable : d.vrf_id # VrfIdOf(v)}
          /\ rib' = [n \in DOMAIN rib \ {v} |-> rib[n]]
    /\ UNCHANGED <<mpls_enabled, last, globals>>

\* The multicast RPF lookup modes.
MCAST_NO_CONFIG == "MCAST_NO_CONFIG"
MCAST_MRIB_ONLY == "MCAST_MRIB_ONLY"
MCAST_URIB_ONLY == "MCAST_URIB_ONLY"
MCAST_MIX_DISTANCE == "MCAST_MIX_DISTANCE"
MCAST_MIX_MRIB_FIRST == "MCAST_MIX_MRIB_FIRST"
MCAST_MIX_PFXLEN == "MCAST_MIX_PFXLEN"

\* The globals as the daemon starts with them: no flag set, no multicast
\* mode configured, no table made the default one, nothing allocated.
NoConfig ==
    [allow_delete |-> 0,
     zebra_rnh_ip_default_route |-> 0,
     zebra_rnh_ipv6_default_route |-> 0,
     ipv4_multicast_mode |-> MCAST_NO_CONFIG,
     rtm_table_default |-> 0,
     route_map_names |-> 0]

Init ==
    /\ vrfs = {}
    /\ ifs = {}
    /\ mpls_enabled \in BOOLEAN
    /\ stable = {}
    /\ rib = [n \in {VRF_DEFAULT_NAME} |-> ActiveVrf(n)]
    /\ last = NoCall
    /\ globals = NoConfig

-----------------------------------------------------------------------------
(* Spec: the nexthop classification.  Every combination of gateway,        *)
(* interface name and flag token on a valid destination, with the          *)
(* interface coming and going.                                             *)

\* The largest static table under Spec.
MaxStaticClass == 1

ClassGates == {NULL, "192.0.2.1", "2001:db8::1"}
ClassIfNames == {NULL, "Null0", "null0", "Nu", "Null00", "eth0"}
ClassFlags == {NULL, "reject", "xflag"}

ClassIn4 ==
    [negate : {NULL, "no"}, dest : {"10.0.0.0/8"}, mask : {NULL}, src : {NULL},
     gate : ClassGates, ifname : ClassIfNames, flag : ClassFlags,
     tag : {NULL}, distance : {NULL}, vrf : {NULL}, label : {NULL}]

ClassIn6 ==
    [negate : {NULL, "no"}, dest : {"2001:db8::/32"}, mask : {NULL},
     src : {NULL},
     gate : ClassGates, ifname : {NULL, "Null0", "eth0"},
     flag : {NULL, "blackhole", "xflag"},
     tag : {NULL}, distance : {NULL}, vrf : {NULL}, label : {NULL}]

ClassInM ==
    [negate : {NULL, "no"}, dest : {"10.0.0.0/8"},
     gate : {NULL, "192.0.2.1"}, ifname : {NULL, "eth0", "Nu"},
     distance : {"5"}]

Next ==
    \/ ip_route(ClassIn4, MaxStaticClass, FALSE)
    \/ ipv6_route(ClassIn6, MaxStaticClass, FALSE)
    \/ ip_mroute_dist(ClassInM, MaxStaticClass, FALSE)
    \/ zebra_static_route_args(AFI_IP, ClassIn4, MaxStaticClass, FALSE)
    \/ zebra_static_route_args(AFI_IP6, ClassIn6, MaxStaticClass, FALSE)
    \/ vty_prompt
    \/ if_add
    \/ if_delete

Spec == Init /\ [][Next]_vars

-----------------------------------------------------------------------------
(* SpecLookup: the interface lookup.  Interface names with and without a   *)
(* gateway, in the default VRF and in VRF red, while VRF red and the       *)
(* interface in either VRF come and go.                                    *)

LookupIn4 ==
    [negate : {NULL, "no"}, dest : {"10.0.0.0/8"}, mask : {NULL}, src : {NULL},
     gate : {NULL, "192.0.2.1"}, ifname : {"eth0", "Nu"},
     flag : {NULL, "blackhole"},
     tag : {NULL}, distance : {NULL}, vrf : {NULL, "red"}, label : {NULL}]

LookupIn6 ==
    [negate : {NULL, "no"}, dest : {"2001:db8::/32"}, mask : {NULL},
     src : {NULL}, gate : {NULL}, ifname : {"eth0", "Null00"}, flag : {NULL},
     tag : {NULL}, distance : {NULL}, vrf : {NULL, "red"}, label : {NULL}]

LookupInM ==
    [negate : {NULL, "no"}, dest : {"10.0.0.0/8"},
     gate : {NULL}, ifname : {"eth0"}, distance : {NULL}]

NextLookup ==
    \/ ip_route(LookupIn4, MaxStaticClass, FALSE)
    \/ ipv6_route(LookupIn6, MaxStaticClass, FALSE)
    \/ ip_mroute_dist(LookupInM, MaxStaticClass, FALSE)
    \/ zebra_static_route_args(AFI_IP, LookupIn4, MaxStaticClass, FALSE)
    \/ vty_prompt
    \/ if_add
    \/ if_delete
    \/ vrf_create
    \/ vrf_delete

SpecLookup == Init /\ [][NextLookup]_vars

-----------------------------------------------------------------------------
(* SpecOrder: the order of validation.  Every check of the handler is      *)
(* given inputs that pass it and inputs that fail it, in all combinations. *)

\* The largest static table under SpecOrder.
MaxStaticOrder == 1

OrderLabels == {NULL, "16", "3", "x", "16,17,18"}

OrderIn4 ==
    [negate : {NULL, "no"}, dest : {"10.0.0.0/8", "bogus"},
     mask : {NULL, "255.0.0.0", "bogus"}, src : {NULL},
     gate : {"192.0.2.1", "2001:db8::1"}, ifname : {NULL, "Null0"},
     flag : {NULL, "Reject", "xflag"},
     tag : {NULL}, distance : {NULL}, vrf : {NULL, "red"}, label : OrderLabels]

OrderIn6 ==
    [negate : {NULL, "no"}, dest : {"2001:db8::/32", "bogus"}, mask : {NULL},
     src : {NULL, "2001:db9::/32", "10.0.0.0/8", "bogus"},
     gate : {"192.0.2.1", "2001:db8::1"}, ifname : {NULL},
     flag : {NULL, "xflag"},
     tag : {NULL}, distance : {NULL}, vrf : {NULL, "red"}, label : {NULL, "3"}]

OrderInM ==
    [negate : {NULL, "no"}, dest : {"10.0.0.0/8"},
     gate : {NULL, "192.0.2.1"}, ifname : {NULL, "eth0"}, distance : {NULL}]

NextOrder ==
    \/ ip_route(OrderIn4, MaxStaticOrder, FALSE)
    \/ ipv6_route(OrderIn6, MaxStaticOrder, FALSE)
    \/ ip_mroute_dist(OrderInM, MaxStaticOrder, FALSE)
    \/ zebra_static_route_args(AFI_IP, OrderIn4, MaxStaticOrder, FALSE)
    \/ zebra_static_route_args(AFI_IP6, OrderIn6, MaxStaticOrder, FALSE)
    \/ vty_prompt
    \/ vrf_create
    \/ vrf_delete

SpecOrder == Init /\ [][NextOrder]_vars

-----------------------------------------------------------------------------
(* SpecPair: sequences of valid commands, one right after the other, so    *)
(* that a call can be compared with the call made before it.               *)

\* The largest static table under SpecPair.
MaxStaticPair == 2

PairIn4 ==
    [negate : {NULL, "no"}, dest : {"10.0.0.0/8"}, mask : {NULL},
     gate : {NULL, "192.0.2.1"}, ifname : {"Null0", "eth0"}, flag : {NULL},
     tag : {"7"}, distance : {NULL}, vrf : {NULL}, label : {NULL}]

PairIn6 ==
    [negate : {NULL, "no"}, dest : {"2001:db8::/32"},
     src : {NULL, "2001:db9::/32"}, gate : {"2001:db8::1"}, ifname : {NULL},
     flag : {NULL}, tag : {NULL}, distance : {NULL}, vrf : {NULL},
     label : {"16"}]

PairInM ==
    [negate : {NULL, "no"}, dest : {"10.0.0.0/8"},
     gate : {"192.0.2.1"}, ifname : {NULL}, distance : {"5"}]

NextPair ==
    \/ ip_route(PairIn4, MaxStaticPair, TRUE)
    \/ ipv6_route(PairIn6, MaxStaticPair, TRUE)
    \/ ip_mroute_dist(PairInM, MaxStaticPair, TRUE)
    \/ vty_prompt
    \/ if_add
    \/ if_delete

SpecPair == Init /\ [][NextPair]_vars

-----------------------------------------------------------------------------
(* What the claims speak of                                                *)

Called == last # NoCall
Failed == last.ret = CMD_WARNING_CONFIG_FAILED
Succeeded == last.ret = CMD_SUCCESS

\* The single checks of the handler, read off the arguments of the call on
\* the vty and the environment it ran in.
BadDest == str2prefix(last.a.dest).ret <= 0
BadMask ==
    /\ last.afi = AFI_IP
    /\ last.a.mask # NULL
    /\ inet_aton(last.a.mask).ret = 0
BadSrc ==
    /\ last.afi = AFI_IP6
    /\ last.a.src # NULL
    /\ \/ str2prefix(last.a.src).ret <= 0
       \/ str2prefix(last.a.src).family # AF_INET6
BadVrf == ~zebra_vrf_lookup_by_name(last.a.vrf, Env).found
MplsOff == last.a.label # NULL /\ ~mpls_enabled
BadLabel == last.a.label # NULL /\ mpls_str2label(last.a.label).rc < 0
LabelErr ==
    LET rc == mpls_str2label(last.a.label).rc
    IN  CASE rc = -1 -> "MalformedLabel"
          [] rc = -2 -> "ReservedLabel"
          [] rc = -3 -> "TooManyLabels"
          [] OTHER   -> NULL
FlagGivenWithNull0 == IsNull0(last.a.ifname) /\ last.a.flag # NULL
BadFlag ==
    /\ last.a.flag # NULL
    /\ Chars(last.a.flag)[1] \notin {"r", "R", "b", "B"}
BadGate ==
    /\ last.a.gate # NULL
    /\ inet_pton(afi2family(last.afi), last.a.gate).ret # 1

\* The error of the first failing check of a list of <<fails, error>>, NULL
\* when none fails.
RECURSIVE FirstFailure(_)
FirstFailure(checks) ==
    IF checks = <<>> THEN NULL
    ELSE IF Head(checks)[1] THEN Head(checks)[2]
    ELSE FirstFailure(Tail(checks))

\* The order of the checks as the specification lists it.
ListedOrder ==
    << <<BadDest, "MalformedAddress">>,
       <<BadMask, "MalformedMask">>,
       <<BadSrc, "MalformedSourceAddress">>,
       <<BadVrf, "VrfNotDefined">>,
       <<MplsOff, "MplsDisabled">>,
       <<BadLabel, LabelErr>>,
       <<BadFlag, "MalformedFlag">>,
       <<BadGate, "MalformedNexthopAddress">> >>

\* The listed order with the check "flag given with Null0" between the label
\* checks and the flag check.
OrderWithNull0 ==
    SubSeq(ListedOrder, 1, 6)
        \o << <<FlagGivenWithNull0, "FlagWithNull0">> >>
        \o SubSeq(ListedOrder, 7, 8)

-----------------------------------------------------------------------------

\* One of the nine checks of the call on the vty fails.
ValidationFails == FirstFailure(OrderWithNull0) # NULL

\* The static table after the requests of the call on the vty, applied in
\* order to the table it found.
RECURSIVE ApplyRequests(_, _)
ApplyRequests(tbl, reqs) ==
    IF reqs = <<>> THEN tbl
    ELSE ApplyRequests(IF Head(reqs).op = "add"
                       THEN static_add_route(tbl, Head(reqs))
                       ELSE static_delete_route(tbl, Head(reqs)),
                       Tail(reqs))

\* C2: a call either fails validation, returns the config-rejected result,
\* issues no request and leaves the static table as it was (labels with MPLS
\* disabled included, for add and for withdraw), or returns success and
\* issues exactly one request, an add without negate and a withdraw with it;
\* no call issues a request and fails.
C2_RejectOrOneRequest ==
    Called =>
        /\ last.ret \in {CMD_SUCCESS, CMD_WARNING_CONFIG_FAILED}
        /\ Failed <=> ValidationFails
        /\ Failed => last.req = <<>> /\ stable = last.before
        /\ Succeeded =>
              /\ Len(last.req) = 1
              /\ last.req[1].op = IF last.a.negate = NULL THEN "add" ELSE "delete"
              /\ stable = ApplyRequests(last.before, last.req)
        /\ MplsOff => Failed

\* A withdraw with labels while MPLS is disabled, rejected in front of a
\* table that holds a route.
C2_Witness ==
    /\ Called
    /\ last.a.negate # NULL
    /\ last.a.label = "16"
    /\ ~mpls_enabled
    /\ ~BadDest /\ ~BadMask /\ ~BadVrf
    /\ Failed
    /\ last.req = <<>>
    /\ stable # {}

-----------------------------------------------------------------------------

\* The call on the vty was made right after another call of the same
\* command, with nothing in between.
AfterCall == Called /\ last.prev # NoCall /\ last.cmd = last.prev.cmd

\* The descriptors of a table that have the identity of a request.
WithIdentity(tbl, r) == {d \in tbl : Identity(d) = Identity(r)}

\* A valid add whose identity was not in the table, withdrawn right after
\* with the same parameters.
AddThenWithdraw ==
    /\ AfterCall
    /\ last.prev.a.negate = NULL
    /\ last.prev.ret = CMD_SUCCESS
    /\ WithIdentity(last.prev.before, last.prev.req[1]) = {}
    /\ last.a = [last.prev.a EXCEPT !.negate = "no"]

\* C3: a valid add of an identity the static table S does not hold, followed
\* by the withdraw with the same parameters and nothing changed in between,
\* leaves the table equal to S (empty when S was empty, as for a Null0 route);
\* the withdraw request carries the type, gateway, interface index, tag,
\* distance and labels of the add request.
C3_AddWithdrawRestores ==
    AddThenWithdraw =>
        /\ Succeeded
        /\ last.before = static_add_route(last.prev.before, last.prev.req[1])
        /\ stable = last.prev.before
        /\ Len(last.req) = 1
        /\ last.req[1].op = "delete"
        /\ \A f \in {"type", "gate", "ifindex", "tag", "distance", "snh_label"} :
              last.req[1][f] = last.prev.req[1][f]
        /\ Identity(last.req[1]) = Identity(last.prev.req[1])

\* `ip route 10.0.0.0/8 Null0` on an empty table, then withdrawn.
C3_Witness ==
    /\ AddThenWithdraw
    /\ last.a.ifname = "Null0"
    /\ last.a.gate = NULL
    /\ last.prev.before = {}
    /\ last.before # {}
    /\ stable = {}

\* The same valid command made twice in a row.
SameAgain ==
    /\ AfterCall
    /\ last.prev.ret = CMD_SUCCESS
    /\ last.a = last.prev.a

\* C4: the same valid add made a second time leaves exactly one descriptor
\* of that identity in the static table; the same valid withdraw made a
\* second time, the descriptor being gone, returns success and leaves the
\* table as it was.
C4_SecondRequestNoEffect ==
    SameAgain =>
        /\ Succeeded
        /\ Len(last.req) = 1
        /\ stable = last.before
        /\ last.a.negate = NULL =>
              Cardinality(WithIdentity(stable, last.req[1])) = 1
        /\ last.a.negate # NULL =>
              /\ WithIdentity(last.before, last.req[1]) = {}
              /\ WithIdentity(stable, last.req[1]) = {}

\* A withdraw that removed a descriptor, made again on a table that still
\* holds another route.
C4_Witness ==
    /\ SameAgain
    /\ last.a.negate # NULL
    /\ last.prev.before # last.before
    /\ stable # {}
    /\ Succeeded

-----------------------------------------------------------------------------

StaticTypes ==
    {STATIC_BLACKHOLE, STATIC_IFINDEX, STATIC_IPV4_GATEWAY, STATIC_IPV6_GATEWAY,
     STATIC_IPV4_GATEWAY_IFINDEX, STATIC_IPV6_GATEWAY_IFINDEX}
Ipv4Types == {STATIC_IPV4_GATEWAY, STATIC_IPV4_GATEWAY_IFINDEX}
Ipv6Types == {STATIC_IPV6_GATEWAY, STATIC_IPV6_GATEWAY_IFINDEX}

\* A name in lower case, character by character.
Lower(n) == [k \in 1..Len(Chars(n)) |-> tolower(Chars(n)[k])]

\* The name is Null0, ignoring case.
EqualsNull0(n) == n # NULL /\ Lower(n) = Lower("Null0")

\* The name is Null0 or the first characters of it, ignoring case.
AbbreviatesNull0(n) ==
    /\ n # NULL
    /\ Len(Chars(n)) <= Len(Chars("Null0"))
    /\ Lower(n) = SubSeq(Lower("Null0"), 1, Len(Chars(n)))

\* The request of the call on the vty (when it issued one).
Req == last.req[1]
Issued == Called /\ last.req # <<>>
IsAdd == last.a.negate = NULL

\* What a call comes to: its result, its error and the type it asked for.
Outcome(ret, err, req) ==
    <<ret, err, IF req = <<>> THEN NULL ELSE req[1].type>>

\* The interface tables a call may meet.
OtherEnvs ==
    {[vrfs |-> vrfs, ifs |-> i, mpls_enabled |-> mpls_enabled] :
        i \in SUBSET ({VRF_DEFAULT} \X EnvIfNames)}

\* C5: the classification is total and deterministic: every combination of
\* gateway, interface name, flag token and AFI ends in one request of one of
\* the six static nexthop types or in a validation error and no request, the
\* same whatever interfaces exist and whatever the table holds; interface
\* Null0 with any flag token is rejected and nothing reaches the RIB.
C5_ClassificationTotal ==
    Called =>
        /\ \/ /\ Succeeded
              /\ Len(last.req) = 1
              /\ Req.type \in StaticTypes
           \/ /\ Failed
              /\ last.req = <<>>
              /\ last.err \in {"FlagWithNull0", "MalformedFlag",
                               "MalformedNexthopAddress"}
        /\ \A e \in OtherEnvs :
              LET c == zebra_static_route(last.afi, last.safi, last.a, e, {})
              IN  Outcome(c.ret, c.err, c.req)
                      = Outcome(last.ret, last.err, last.req)
        /\ EqualsNull0(last.a.ifname) /\ last.a.flag # NULL =>
              /\ Failed
              /\ last.req = <<>>
              /\ stable = last.before

\* Null0 (in lower case) with the reject token, rejected.
C5_Witness ==
    /\ Called
    /\ last.a.ifname = "null0"
    /\ last.a.flag = "reject"
    /\ last.a.gate = NULL
    /\ Failed
    /\ last.err = "FlagWithNull0"

\* C6: with interface Null0 and no flag token the request handed to the RIB
\* has the blackhole type and carries neither gateway nor interface, also
\* when a gateway address came with Null0.
C6_Null0ClearsGateway ==
    Issued /\ EqualsNull0(last.a.ifname) /\ last.a.flag = NULL =>
        /\ Req.type = STATIC_BLACKHOLE
        /\ Req.gate = NoGate
        /\ Req.ifindex = 0
        /\ Req.ifname = NULL

ValidFlag == last.a.flag \in {"reject", "blackhole"}
FlagOf(f) == IF f = "reject" THEN ZEBRA_FLAG_REJECT ELSE ZEBRA_FLAG_BLACKHOLE

InterfaceAlone ==
    /\ Called
    /\ last.a.ifname # NULL
    /\ last.a.gate = NULL
    /\ last.a.flag = NULL
    /\ ~BadVrf

\* C8 as stated: every interface name that is not Null0 ignoring case,
\* given alone, is classified InterfaceOnly with that name.
C8_OnlyNull0IsBlackhole ==
    InterfaceAlone /\ ~EqualsNull0(last.a.ifname) =>
        /\ Succeeded
        /\ Req.type = STATIC_IFINDEX
        /\ IsAdd => Req.ifname = last.a.ifname

\* C8: the Null0 rule applies to every name that is Null0 or an abbreviation
\* of it, ignoring case; every other name, given alone, is classified
\* InterfaceOnly with that name.
C8_AbbreviationIsNull0 ==
    InterfaceAlone =>
        /\ Succeeded
        /\ IF AbbreviatesNull0(last.a.ifname)
           THEN /\ Req.type = STATIC_BLACKHOLE
                /\ Req.ifindex = 0
                /\ IsAdd => Req.ifname = NULL /\ Req.flags = {ZEBRA_FLAG_BLACKHOLE}
           ELSE /\ Req.type = STATIC_IFINDEX
                /\ IsAdd => Req.ifname = last.a.ifname

\* `ip mroute 10.0.0.0/8 Nu`: a blackhole request.
C8_Witness ==
    /\ InterfaceAlone
    /\ last.cmd = "ip mroute"
    /\ last.a.ifname = "Nu"
    /\ Succeeded
    /\ Req.type = STATIC_BLACKHOLE

\* The type rules 3, 5 and 6 name for the call on the vty.
TypeByRule ==
    IF last.a.gate # NULL /\ last.a.ifname # NULL
    THEN IF last.afi = AFI_IP THEN STATIC_IPV4_GATEWAY_IFINDEX
         ELSE STATIC_IPV6_GATEWAY_IFINDEX
    ELSE IF last.a.gate # NULL
    THEN IF last.afi = AFI_IP THEN STATIC_IPV4_GATEWAY
         ELSE STATIC_IPV6_GATEWAY
    ELSE IF last.a.ifname = NULL THEN STATIC_BLACKHOLE
    ELSE Req.type

AfiKept ==
    Issued =>
        /\ last.afi = AFI_IP => Req.type \notin Ipv6Types
        /\ last.afi = AFI_IP6 => Req.type \notin Ipv4Types

\* C9 as stated: without flag token and with an interface that is not Null0,
\* gateway and interface give the gateway+interface type of the AFI, a
\* gateway alone the gateway type of the AFI, neither the blackhole type.
C9_TypeUnlessNull0 ==
    /\ Issued /\ last.a.flag = NULL /\ ~EqualsNull0(last.a.ifname) =>
          Req.type = TypeByRule
    /\ AfiKept

\* C9: without flag token and with an interface name (if any) that is not
\* Null0 or an abbreviation of it, a valid gateway and an interface give the
\* gateway+interface type of the command's AFI, a gateway alone the gateway
\* type of that AFI, neither the blackhole type; no IPv4 call asks for an
\* IPv6 type and no IPv6 call for an IPv4 type.
C9_TypeUnlessAbbreviation ==
    /\ Called /\ last.a.flag = NULL /\ ~AbbreviatesNull0(last.a.ifname)
              /\ ~BadVrf /\ ~BadGate =>
          /\ Succeeded
          /\ Req.type = TypeByRule
    /\ AfiKept

\* An IPv6 gateway with an interface.
C9_Witness ==
    /\ Issued
    /\ last.afi = AFI_IP6
    /\ last.a.flag = NULL
    /\ last.a.gate = "2001:db8::1"
    /\ last.a.ifname = "eth0"
    /\ Req.type = STATIC_IPV6_GATEWAY_IFINDEX

\* The interface name of the call is in the interface table of its VRF.
Resolves ==
    <<zebra_vrf_lookup_by_name(last.a.vrf, Env).vrf_id, last.a.ifname>> \in ifs

\* The index a looked-up name is to carry.
IndexByLookup ==
    IF Resolves THEN KernelIfIndex(last.a.ifname) ELSE IFINDEX_DELETED

\* The call names an interface and nothing else of it is invalid.
InterfaceGiven ==
    /\ Called
    /\ last.a.ifname # NULL
    /\ ~BadVrf /\ ~BadFlag /\ ~BadGate

\* C10 as stated: an interface name (other than Null0) that does not resolve
\* in the VRF's interface table is accepted with IFINDEX_DELETED, a resolved
\* one with its real index.
C10_IndexUnlessNull0 ==
    InterfaceGiven /\ ~EqualsNull0(last.a.ifname) =>
        /\ Succeeded
        /\ Len(last.req) = 1
        /\ Req.ifindex = IndexByLookup

\* C10: an interface name that is not Null0 or an abbreviation of it never
\* causes rejection: unresolved in the interface table of the call's VRF it
\* is accepted, for add and withdraw, with IFINDEX_DELETED as its index;
\* resolved, with the interface's index.
C10_IndexUnlessAbbreviation ==
    InterfaceGiven /\ ~AbbreviatesNull0(last.a.ifname) =>
        /\ Succeeded
        /\ Len(last.req) = 1
        /\ Req.op = IF IsAdd THEN "add" ELSE "delete"
        /\ Req.ifindex = IndexByLookup

\* eth0 exists in the default VRF and not in VRF red, where the route goes.
C10_Witness ==
    /\ InterfaceGiven
    /\ last.a.ifname = "eth0"
    /\ last.a.vrf = "red"
    /\ <<VRF_DEFAULT, "eth0">> \in ifs
    /\ ~Resolves
    /\ Succeeded
    /\ Req.ifindex = IFINDEX_DELETED

-----------------------------------------------------------------------------
(* SpecMask: static route commands whose prefixes carry host bits.         *)

\* The largest static table under SpecMask.
MaxStaticMask == 2

MaskIn4 ==
    [negate : {NULL, "no"}, dest : {"10.0.0.0/8", "10.1.2.3/8", "10.1.2.3"},
     mask : {NULL, "255.0.0.0"}, gate : {NULL, "192.0.2.1"},
     ifname : {NULL, "eth0"}, flag : {NULL}, tag : {NULL}, distance : {NULL},
     vrf : {NULL}, label : {NULL}]

MaskIn6 ==
    [negate : {NULL, "no"}, dest : {"2001:db8::/32", "2001:db8::1/32"},
     src : {NULL, "2001:db9::/32", "2001:db8::1/32"},
     gate : {NULL, "2001:db8::1"}, ifname : {NULL, "eth0"}, flag : {NULL},
     tag : {NULL}, distance : {NULL}, vrf : {NULL}, label : {NULL}]

MaskInM ==
    [negate : {NULL, "no"}, dest : {"10.0.0.0/8", "10.1.2.3/8"},
     gate : {"192.0.2.1"}, ifname : {NULL}, distance : {NULL}]

NextMask ==
    \/ ip_route(MaskIn4, MaxStaticMask, FALSE)
    \/ ipv6_route(MaskIn6, MaxStaticMask, FALSE)
    \/ ip_mroute_dist(MaskInM, MaxStaticMask, FALSE)
    \/ vty_prompt
    \/ if_add
    \/ if_delete

SpecMask == Init /\ [][NextMask]_vars

\* Every bit of the address past the prefix length is zero.
Masked(p) ==
    \A i \in 1..Len(p.addr) :
        LET first == 8 * (i - 1)
        IN  /\ first >= p.prefixlen => p.addr[i] = 0
            /\ (first < p.prefixlen /\ p.prefixlen < first + 8) =>
                  p.addr[i] % (2 ^ (first + 8 - p.prefixlen)) = 0

HasHostBits(s) == str2prefix(s).ret > 0 /\ ~Masked(str2prefix(s))

\* C11: every prefix zebra_static_route hands to the RIB, the destination and
\* the IPv6 source prefix when one is given, has all bits past its prefix
\* length zero, also when the IPv4 mask form replaced the prefix length; and
\* masking a prefix that is handed over changes nothing.
C11_HandedPrefixesMasked ==
    Issued =>
        /\ Masked(Req.p)
        /\ apply_mask(Req.p) = Req.p
        /\ Req.src_p # NoPrefix =>
              /\ Masked(Req.src_p)
              /\ apply_mask(Req.src_p) = Req.src_p

\* The destination alone: it is masked (line 121) after the mask form has
\* replaced its length (line 101).
C11_DestinationMasked ==
    Issued =>
        /\ Masked(Req.p)
        /\ apply_mask(Req.p) = Req.p
        /\ apply_mask(apply_mask(Req.p)) = apply_mask(Req.p)

\* A destination given in the mask form, with bits past the mask's length,
\* was handed over.
C11_Witness ==
    /\ Issued
    /\ last.a.mask = "255.0.0.0"
    /\ str2prefix(last.a.dest).addr = <<10, 1, 2, 3>>
    /\ Req.p.prefixlen = 8

\* A source prefix with host bits was handed over.
C11_SourceWitness ==
    /\ Issued
    /\ last.a.src # NULL
    /\ HasHostBits(last.a.src)

-----------------------------------------------------------------------------
(* The show commands.  A context c holds what a command has written to     *)
(* the vty (out), the RIB with the lock counts its walks have left (rib),  *)
(* the arguments of its calls of do_show_ip_route (calls), the tables      *)
(* handed to a walker (walked) and the command's result (ret).             *)

ShowContext(r) ==
    [rib |-> r, out |-> <<>>, calls |-> <<>>, walked |-> <<>>, ret |-> NULL]

\* vty_out(vty, text)
Text(s) == [k |-> "text", s |-> s]
vty_out(c, item) == [c EXCEPT !.out = Append(c.out, item)]

\* What vty_show_ip_route writes in text mode for the entry i of the node
\* p: a line per nexthop, the first with the prefix information.
RouteLine(vrf, p, i, re) ==
    [k |-> "route", vrf |-> vrf, p |-> p, i |-> i, re |-> re,
     lines |-> [n \in 1..Len(re.nexthop) |->
                   [prefix |-> n = 1,
                    fib |-> CHECK_FLAG(re.nexthop[n].flags, NEXTHOP_FLAG_FIB)]]]

\* The text branch of vty_show_ip_route: all it writes is within the loop
\* over the nexthops.
vty_show_ip_route_text(vrf, p, i, re) ==
    IF Len(re.nexthop) = 0 THEN <<>> ELSE <<RouteLine(vrf, p, i, re)>>

\* The JSON branch of vty_show_ip_route: the object of the entry, with the
\* array of its nexthops, added to the array of the prefix.
vty_show_ip_route_json(i, re) ==
    [i |-> i, re |-> re,
     nexthops |-> [n \in 1..Len(re.nexthop) |->
                      [fib |-> CHECK_FLAG(re.nexthop[n].flags,
                                          NEXTHOP_FLAG_FIB)]]]

\* json_object_to_json_string_ext(json, ...): the object, one array of
\* entries per prefix.
JsonText(json) == [k |-> "json", obj |-> json]

\* The test of use_fib turned around: the word is a beginning of "route".
use_fib_IsRoute(arg) ==
    arg \in {"", "r", "ro", "rou", "rout", "route"}

\* use_fib(token): the word typed for <fib|route> is not a beginning of
\* "route".
use_fib(arg) ==
    arg \notin {"", "r", "ro", "rou", "rout", "route"}

\* IN_CLASSA, IN_CLASSB, IN_CLASSC on ntohl(rn->p.u.prefix4.s_addr): the
\* leading bits of the first octet are 0, 10, 110.
IN_CLASSA(addr) == addr[1] < 128
IN_CLASSB(addr) == addr[1] >= 128 /\ addr[1] < 192
IN_CLASSC(addr) == addr[1] >= 192 /\ addr[1] < 224

\* The chain with a fib test on the entry's selected flag.
show_continue_SelectedFlag(a, p, re) ==
    \/ a.use_fib /\ ~CHECK_FLAG(re.flags, ZEBRA_FLAG_SELECTED)
    \/ a.tag # 0 /\ re.tag # a.tag
    \/ a.longer_prefix_p # NoPrefix /\ ~prefix_match(a.longer_prefix_p, p)
    \/ /\ a.supernets_only
       /\ \/ IN_CLASSC(p.addr) /\ p.prefixlen >= 24
          \/ IN_CLASSB(p.addr) /\ p.prefixlen >= 16
          \/ IN_CLASSA(p.addr) /\ p.prefixlen >= 8
    \/ a.type # ZEBRA_ROUTE_SYSTEM /\ re.type # a.type
    \/ /\ a.ospf_instance_id # 0
       /\ re.type # ZEBRA_ROUTE_OSPF \/ re.instance # a.ospf_instance_id

\* The chain of "continue"s at the head of the loop body of
\* do_show_ip_route: TRUE when the entry is passed over.
show_continue(a, p, re) ==
    \/ a.use_fib /\ ~CHECK_FLAG(re.status, ROUTE_ENTRY_SELECTED_FIB)
    \/ a.tag # 0 /\ re.tag # a.tag
    \/ a.longer_prefix_p # NoPrefix /\ ~prefix_match(a.longer_prefix_p, p)
    \/ /\ a.supernets_only
       /\ \/ IN_CLASSC(p.addr) /\ p.prefixlen >= 24
          \/ IN_CLASSB(p.addr) /\ p.prefixlen >= 16
          \/ IN_CLASSA(p.addr) /\ p.prefixlen >= 8
    \/ a.type # ZEBRA_ROUTE_SYSTEM /\ re.type # a.type
    \/ /\ a.ospf_instance_id # 0
       /\ re.type # ZEBRA_ROUTE_OSPF \/ re.instance # a.ospf_instance_id

\* show_entries with a header test that never sees the header as printed.
RECURSIVE show_entries_HeaderEach(_, _, _, _, _, _)
show_entries_HeaderEach(a, zvrf, p, info, i, st) ==
    IF i > Len(info) THEN st
    ELSE IF show_continue(a, p, info[i])
    THEN show_entries_HeaderEach(a, zvrf, p, info, i + 1, st)
    ELSE LET head ==
                 IF a.use_json THEN <<>>
                 ELSE <<Text(IF a.afi = AFI_IP THEN "SHOW_ROUTE_V4_HEADER"
                                               ELSE "SHOW_ROUTE_V6_HEADER")>>
                      \o (IF zvrf.vrf_id # VRF_DEFAULT
                          THEN <<Text("VRF"), Text(zvrf.name)>> ELSE <<>>)
             line == IF a.use_json THEN <<>>
                     ELSE vty_show_ip_route_text(zvrf.name, p, i, info[i])
         IN  show_entries_HeaderEach(a, zvrf, p, info, i + 1,
                 [st EXCEPT
                     !.out = st.out \o head \o line,
                     !.json_prefix =
                         IF a.use_json
                         THEN Append(st.json_prefix,
                                     vty_show_ip_route_json(i, info[i]))
                         ELSE st.json_prefix])

\* RNODE_FOREACH_RE(rn, re) { ... vty_show_ip_route(vty, rn, re, json_prefix); }
\* st holds the loop's locals: out, first and json_prefix.
RECURSIVE show_entries(_, _, _, _, _, _)
show_entries(a, zvrf, p, info, i, st) ==
    IF i > Len(info) THEN st
    ELSE IF show_continue(a, p, info[i])
    THEN show_entries(a, zvrf, p, info, i + 1, st)
    ELSE LET head ==
                 IF a.use_json \/ ~st.first THEN <<>>
                 ELSE <<Text(IF a.afi = AFI_IP THEN "SHOW_ROUTE_V4_HEADER"
                                               ELSE "SHOW_ROUTE_V6_HEADER")>>
                      \o (IF zvrf.vrf_id # VRF_DEFAULT
                          THEN <<Text("VRF"), Text(zvrf.name)>> ELSE <<>>)
             line == IF a.use_json THEN <<>>
                     ELSE vty_show_ip_route_text(zvrf.name, p, i, info[i])
         IN  show_entries(a, zvrf, p, info, i + 1,
                 [st EXCEPT
                     !.out = st.out \o head \o line,
                     !.first = IF a.use_json THEN st.first ELSE FALSE,
                     !.json_prefix =
                         IF a.use_json
                         THEN Append(st.json_prefix,
                                     vty_show_ip_route_json(i, info[i]))
                         ELSE st.json_prefix])

\* for (rn = route_top(table); rn; rn = route_next(rn)) { ... }
RECURSIVE show_walk(_, _, _, _, _)
show_walk(a, zvrf, t, rn, st) ==
    IF rn = NoNode THEN [t |-> t, st |-> st]
    ELSE LET s1 == show_entries(a, zvrf, rn, NodeOf(t, rn).info, 1, st)
             s2 == IF s1.json_prefix # <<>>
                   THEN [s1 EXCEPT !.json = Append(s1.json, <<rn, s1.json_prefix>>),
                                   !.json_prefix = <<>>]
                   ELSE s1
             nx == route_next(t, rn)
         IN  show_walk(a, zvrf, nx.t, nx.rn, s2)

\* The exits of do_show_ip_route for a VRF that is not defined or inactive:
\* "{}" in structured mode, else a line of text; return CMD_SUCCESS.
show_no_vrf_Warning(c, json, words) ==
    [vty_out(c, IF json THEN Text("{}") ELSE Text(words))
        EXCEPT !.ret = CMD_WARNING]

show_no_vrf(c, json, words) ==
    [vty_out(c, IF json THEN Text("{}") ELSE Text(words))
        EXCEPT !.ret = CMD_SUCCESS]

\* The exit for a VRF without the table: "{}" in structured mode only.
show_no_table(c, json) ==
    [(IF json THEN vty_out(c, Text("{}")) ELSE c) EXCEPT !.ret = CMD_SUCCESS]

\* do_show_ip_route(vty, vrf_name, afi, safi, use_fib, use_json, tag,
\*                  longer_prefix_p, supernets_only, type, ospf_instance_id)
do_show_ip_route(c0, a) ==
    LET c == [c0 EXCEPT !.calls = Append(@, a)]
        zvrf == zebra_vrf_lookup_by_name(a.vrf_name, [vrfs |-> DOMAIN c.rib])
        id == zvrf_id(c.rib, zvrf.name)
        table == zebra_vrf_table(c.rib, a.afi, a.safi, id)
    IN  IF ~zvrf.found
        THEN show_no_vrf(c, a.use_json, "vrf not defined")
        ELSE IF id = VRF_UNKNOWN
        THEN show_no_vrf(c, a.use_json, "vrf inactive")
        ELSE IF table.null
        THEN show_no_table(c, a.use_json)
        ELSE LET top == route_top(table)
                 w == show_walk(a, [name |-> zvrf.name, vrf_id |-> id],
                                top.t, top.rn,
                                [out |-> <<>>, first |-> TRUE,
                                 json_prefix |-> <<>>, json |-> <<>>])
             IN  [c EXCEPT
                     !.rib[zvrf.name].table[<<a.afi, a.safi>>] = w.t,
                     !.walked = Append(@, [fn |-> "do_show_ip_route",
                                           vrf |-> zvrf.name,
                                           null |-> table.null]),
                     !.out = @ \o w.st.out
                               \o (IF a.use_json THEN <<JsonText(w.st.json)>>
                                   ELSE <<>>),
                     !.ret = CMD_SUCCESS]

\* A token of a matched command line: the text of the grammar token and the
\* word typed for it.
Tok(text, arg) == [text |-> text, arg |-> arg]
Kw(text) == Tok(text, text)

\* argv_find(argv, argc, str, &idx): the index (from 1 here) of the first
\* token whose grammar text is str, or 0.
argv_find(argv, str) ==
    IF \E i \in 1..Len(argv) : argv[i].text = str
    THEN CHOOSE i \in 1..Len(argv) :
             /\ argv[i].text = str
             /\ \A j \in 1..(i - 1) : argv[j].text # str
    ELSE 0

\* use_json(argc, argv): the last token is "json".
use_json(argv) == argv[Len(argv)].text = "json"

\* proto_redistnum(afi, s): the route type of a protocol keyword, or -1.
proto_redistnum(afi, s) ==
    CASE s = "kernel"    -> ZEBRA_ROUTE_KERNEL
      [] s = "connected" -> ZEBRA_ROUTE_CONNECT
      [] s = "static"    -> ZEBRA_ROUTE_STATIC
      [] s = "ospf"      -> ZEBRA_ROUTE_OSPF
      [] s = "bgp"       -> ZEBRA_ROUTE_BGP
      [] OTHER           -> "-1"

\* The protocol keywords of FRR_IP_REDIST_STR_ZEBRA in the order the command
\* looks for them, among the ones of the model.
RedistWords == <<"kernel", "connected", "static", "ospf", "bgp">>

\* The if/else-if chain over the protocol keywords: the type of the first
\* keyword of the chain that is on the command line, else 0.
RECURSIVE redist_type(_, _, _)
redist_type(afi, argv, i) ==
    IF i > Len(RedistWords) THEN ZEBRA_ROUTE_SYSTEM
    ELSE IF argv_find(argv, RedistWords[i]) # 0
    THEN proto_redistnum(afi, argv[argv_find(argv, RedistWords[i])].text)
    ELSE redist_type(afi, argv, i + 1)

\* VRF_GET_ID(V, NAME): the id of the VRF of that name, for a name that is
\* defined and active.
VRF_GET_ID_ok(r, name) == name \in DOMAIN r /\ r[name].vrf_id # VRF_UNKNOWN
VRF_GET_ID(r, name) == r[name].vrf_id

\* RB_FOREACH(vrf, vrf_name_head, &vrfs_by_name): the VRF names in the order
\* of strcmp, for the names of the model ('D' < 'b' < 'r').
VrfNameRank(n) ==
    CASE n = VRF_DEFAULT_NAME -> 1 [] n = "blue" -> 2 [] n = "red" -> 3
      [] OTHER -> 4

RECURSIVE vrfs_by_name(_)
vrfs_by_name(names) ==
    IF names = {} THEN <<>>
    ELSE LET n == CHOOSE n \in names :
                      \A m \in names : VrfNameRank(n) <= VrfNameRank(m)
         IN  <<n>> \o vrfs_by_name(names \ {n})

\* The arguments show_ip_route and show_ipv6_route hand to do_show_ip_route,
\* but for the VRF name: the parse of the filter tokens.
show_route_filter(afi, argv) ==
    LET tag_i == argv_find(argv, "tag")
        pfx_i == argv_find(argv, IF afi = AFI_IP THEN "A.B.C.D/M"
                                                 ELSE "X:X::X:X/M")
        sup_i == IF afi = AFI_IP THEN argv_find(argv, "supernets_only") ELSE 0
        ins_i == IF afi = AFI_IP THEN argv_find(argv, "(1-65535)") ELSE 0
        else_branch == tag_i = 0 /\ pfx_i = 0 /\ sup_i = 0
    IN  [afi |-> afi, safi |-> SAFI_UNICAST,
         use_fib |-> use_fib(argv[3].arg),
         use_json |-> use_json(argv),
         tag |-> IF tag_i # 0 THEN atoi(argv[tag_i + 1].arg) ELSE 0,
         longer_prefix_p |->
             IF tag_i = 0 /\ pfx_i # 0
             THEN [family |-> str2prefix(argv[pfx_i].arg).family,
                   addr |-> str2prefix(argv[pfx_i].arg).addr,
                   prefixlen |-> str2prefix(argv[pfx_i].arg).prefixlen]
             ELSE NoPrefix,
         supernets_only |-> tag_i = 0 /\ pfx_i = 0 /\ sup_i # 0,
         type |-> IF else_branch THEN redist_type(afi, argv, 1)
                  ELSE ZEBRA_ROUTE_SYSTEM,
         ospf_instance_id |->
             IF else_branch /\ ins_i # 0 THEN atoi(argv[ins_i].arg) ELSE 0]

\* The all-VRF loop of show_ip_route and show_ipv6_route.
RECURSIVE show_route_vrf_all(_, _, _, _)
show_route_vrf_all(c, f, names, i) ==
    IF i > Len(names) THEN c
    ELSE IF c.rib[names[i]].table[<<f.afi, f.safi>>].null
    THEN show_route_vrf_all(c, f, names, i + 1)
    ELSE show_route_vrf_all(
             do_show_ip_route(c, [f EXCEPT !.vrf_name = names[i]]),
             f, names, i + 1)

\* The body of DEFUN (show_ip_route) and of DEFUN (show_ipv6_route).
show_route_body(c, afi, argv) ==
    LET vrf_i == argv_find(argv, "vrf")
        vrf_all == vrf_i # 0 /\ argv[vrf_i + 1].arg = "all"
        vrf_id == IF vrf_i # 0 /\ ~vrf_all
                  THEN VRF_GET_ID(c.rib, argv[vrf_i + 1].arg)
                  ELSE VRF_DEFAULT
        f == show_route_filter(afi, argv) @@ [vrf_name |-> NULL]
    IN  IF f.type = "-1"
        THEN [vty_out(c, Text("Unknown route type")) EXCEPT !.ret = CMD_WARNING]
        ELSE IF vrf_all
        THEN [show_route_vrf_all(c, f, vrfs_by_name(DOMAIN c.rib), 1)
                 EXCEPT !.ret = CMD_SUCCESS]
        ELSE [do_show_ip_route(c, [f EXCEPT !.vrf_name =
                                       vrf_lookup_by_id(c.rib, vrf_id)])
                 EXCEPT !.ret = CMD_SUCCESS]

\* A show command is one step; last keeps the command line, the RIB it ran
\* on and what the context of the command came to.
\* When the command was killed, what it had written may or may not
\* have left the vty's buffer.
ShowInvoke(cmd, argv, c) ==
    /\ rib' = c.rib
    /\ \E flushed \in (IF c.ret = SIGSEGV THEN BOOLEAN ELSE {TRUE}) :
          last' = [cmd |-> cmd, argv |-> argv, before |-> rib, ret |-> c.ret,
                   out |-> IF flushed THEN c.out ELSE <<>>,
                   calls |-> c.calls, walked |-> c.walked, prev |-> NoCall]
    /\ UNCHANGED <<vrfs, ifs, mpls_enabled, stable, globals>>

\* The VRF words of a command line name "all" or a VRF VRF_GET_ID resolves.
vrf_tkns(argv) ==
    LET vrf_i == argv_find(argv, "vrf")
    IN  vrf_i # 0 /\ argv[vrf_i + 1].arg # "all"
            => VRF_GET_ID_ok(rib, argv[vrf_i + 1].arg)

\* DEFUN (show_ip_route): "show ip <fib|route> [vrf NAME] [tag (1-4294967295)
\* |A.B.C.D/M longer-prefixes|supernets-only|<protocol>|ospf (1-65535)] [json]"
show_ip_route(Lines) ==
    /\ last = NoCall
    /\ \E argv \in Lines :
          /\ vrf_tkns(argv)
          /\ ShowInvoke("show ip route", argv,
                        show_route_body(ShowContext(rib), AFI_IP, argv))

\* DEFUN (show_ipv6_route): "show ipv6 <fib|route> [vrf NAME] [tag
\* (1-4294967295)|X:X::X:X/M longer-prefixes|<protocol>] [json]"
show_ipv6_route(Lines) ==
    /\ last = NoCall
    /\ \E argv \in Lines :
          /\ vrf_tkns(argv)
          /\ ShowInvoke("show ipv6 route", argv,
                        show_route_body(ShowContext(rib), AFI_IP6, argv))

\* do_show_ip_route applied to arguments of its own parameter types.
do_show_ip_route_args(In) ==
    /\ last = NoCall
    /\ \E a \in In :
          ShowInvoke("do_show_ip_route", <<>>,
                     do_show_ip_route(ShowContext(rib), a))

\* str2prefix_ipv4(str, &p), str2prefix_ipv6(str, &p)
str2prefix_ipv4(s) ==
    IF str2prefix(s).family = AF_INET THEN str2prefix(s) ELSE PrefixFail
str2prefix_ipv6(s) ==
    IF str2prefix(s).family = AF_INET6 THEN str2prefix(s) ELSE PrefixFail

\* What vty_show_ip_route_detail writes for the entry i of the node p.
DetailRecord(vrf, p, i, re) ==
    [k |-> "detail", vrf |-> vrf, p |-> p, i |-> i, re |-> re]

\* vty_show_ip_route_detail(vty, rn, mcast): RNODE_FOREACH_RE(rn, re) { ... }
vty_show_ip_route_detail(c, vrf, key, rn) ==
    LET info == NodeOf(c.rib[vrf].table[key], rn).info
    IN  [c EXCEPT !.out =
            @ \o [i \in 1..Len(info) |-> DetailRecord(vrf, rn, i, info[i])]]

\* show_route_at_table without the prefix form's test of the node's length.
show_route_at_table_AnyLength(c, vrf, afi, p, exact) ==
    LET key == <<afi, SAFI_UNICAST>>
        table == c.rib[vrf].table[key]
        m == route_node_match(table, p)
        c1 == [c EXCEPT !.rib[vrf].table[key] = m.t,
                        !.walked = Append(@, [fn |-> "route_node_match",
                                              vrf |-> vrf, null |-> FALSE])]
    IN  IF m.rn = NoNode
        THEN [vty_out(c1, Text("% Network not in table"))
                 EXCEPT !.ret = CMD_WARNING]
        ELSE LET c2 == vty_show_ip_route_detail(c1, vrf, key, m.rn)
             IN  [c2 EXCEPT !.rib[vrf].table[key] = route_unlock_node(@, m.rn),
                            !.ret = CMD_SUCCESS]

\* The lines of show_ip_route_addr, show_ip_route_prefix and their IPv6
\* twins from the table lookup on.  exact is the prefix form's test of the
\* node's length.
show_route_at_table(c, vrf, afi, p, exact) ==
    LET key == <<afi, SAFI_UNICAST>>
        table == c.rib[vrf].table[key]
        m == route_node_match(table, p)
        c1 == [c EXCEPT !.rib[vrf].table[key] = m.t,
                        !.walked = Append(@, [fn |-> "route_node_match",
                                              vrf |-> vrf, null |-> FALSE])]
    IN  IF m.rn = NoNode \/ (exact /\ m.rn.prefixlen # p.prefixlen)
        THEN [vty_out(c1, Text("% Network not in table"))
                 EXCEPT !.ret = CMD_WARNING]
        ELSE LET c2 == vty_show_ip_route_detail(c1, vrf, key, m.rn)
             IN  [c2 EXCEPT !.rib[vrf].table[key] = route_unlock_node(@, m.rn),
                            !.ret = CMD_SUCCESS]

\* The body of DEFUN (show_ip_route_addr), (show_ip_route_prefix),
\* (show_ipv6_route_addr) and (show_ipv6_route_prefix):
\* "show ip route [vrf NAME] A.B.C.D" and so on.
show_route_at_body(c, afi, argv, exact) ==
    LET has_vrf == argv[4].text = "vrf"
        vrf_id == IF has_vrf THEN VRF_GET_ID(c.rib, argv[5].arg) ELSE VRF_DEFAULT
        word == IF has_vrf THEN argv[6].arg ELSE argv[4].arg
        p == IF afi = AFI_IP THEN str2prefix_ipv4(word) ELSE str2prefix_ipv6(word)
        vrf == vrf_lookup_by_id(c.rib, vrf_id)
    IN  IF p.ret <= 0
        THEN [vty_out(c, Text("% Malformed address")) EXCEPT !.ret = CMD_WARNING]
        ELSE IF zebra_vrf_table(c.rib, afi, SAFI_UNICAST, vrf_id).null
        THEN [c EXCEPT !.ret = CMD_SUCCESS]
        ELSE show_route_at_table(c, vrf, afi,
                 [family |-> p.family, addr |-> p.addr,
                  prefixlen |-> p.prefixlen], exact)

\* The loop of DEFUN (show_ip_route_vrf_all_addr), (..._vrf_all_prefix) and
\* their IPv6 twins.
RECURSIVE show_route_vrf_all_at(_, _, _, _, _, _)
show_route_vrf_all_at(c, afi, p, exact, names, i) ==
    IF i > Len(names) THEN c
    ELSE LET key == <<afi, SAFI_UNICAST>>
             vrf == names[i]
             table == c.rib[vrf].table[key]
             m == route_node_match(table, p)
             c1 == [c EXCEPT !.rib[vrf].table[key] = m.t,
                             !.walked = Append(@, [fn |-> "route_node_match",
                                                   vrf |-> vrf,
                                                   null |-> FALSE])]
         IN  IF table.null
             THEN show_route_vrf_all_at(c, afi, p, exact, names, i + 1)
             ELSE IF m.rn = NoNode
             THEN show_route_vrf_all_at(c1, afi, p, exact, names, i + 1)
             ELSE IF exact /\ m.rn.prefixlen # p.prefixlen
             THEN show_route_vrf_all_at(
                      [c1 EXCEPT !.rib[vrf].table[key] =
                                     route_unlock_node(@, m.rn)],
                      afi, p, exact, names, i + 1)
             ELSE show_route_vrf_all_at(
                      [vty_show_ip_route_detail(c1, vrf, key, m.rn)
                          EXCEPT !.rib[vrf].table[key] =
                                     route_unlock_node(@, m.rn)],
                      afi, p, exact, names, i + 1)

\* "show ip route vrf all A.B.C.D" and so on: the word is argv[5].
show_route_vrf_all_at_body(c, afi, argv, exact) ==
    LET word == argv[6].arg
        p == IF afi = AFI_IP THEN str2prefix_ipv4(word) ELSE str2prefix_ipv6(word)
    IN  IF p.ret <= 0
        THEN [vty_out(c, Text("% Malformed address")) EXCEPT !.ret = CMD_WARNING]
        ELSE [show_route_vrf_all_at(c, afi,
                  [family |-> p.family, addr |-> p.addr,
                   prefixlen |-> p.prefixlen],
                  exact, vrfs_by_name(DOMAIN c.rib), 1)
                 EXCEPT !.ret = CMD_SUCCESS]

\* The buckets of rib_cnt[] and fib_cnt[], and the route types in the order
\* of their numbers.
RouteTypes ==
    <<ZEBRA_ROUTE_SYSTEM, ZEBRA_ROUTE_KERNEL, ZEBRA_ROUTE_CONNECT,
      ZEBRA_ROUTE_STATIC, ZEBRA_ROUTE_OSPF, ZEBRA_ROUTE_BGP>>
Buckets ==
    {RouteTypes[i] : i \in 1..Len(RouteTypes)}
        \cup {ZEBRA_ROUTE_IBGP, ZEBRA_ROUTE_TOTAL}

\* memset(&rib_cnt, 0, ...); memset(&fib_cnt, 0, ...);
NoCounts == [rib_cnt |-> [b \in Buckets |-> 0], fib_cnt |-> [b \in Buckets |-> 0]]

\* rib_cnt[b]++, fib_cnt[b]++: u_int32_t counters of the entries of one
\* table, which number far fewer than 2^32.
IncRib(n, b) == [n EXCEPT !.rib_cnt[b] = @ + 1]
IncFib(n, b) == [n EXCEPT !.fib_cnt[b] = @ + 1]

\* The per-entry body counting an entry only when it is selected.
summary_entry_SelectedOnly(n, re) ==
    LET is_ibgp == re.type = ZEBRA_ROUTE_BGP /\ CHECK_FLAG(re.flags, ZEBRA_FLAG_IBGP)
        bucket == IF is_ibgp THEN ZEBRA_ROUTE_IBGP ELSE re.type
    IN  IF CHECK_FLAG(re.flags, ZEBRA_FLAG_SELECTED)
        THEN IncFib(IncFib(IncRib(IncRib(n, ZEBRA_ROUTE_TOTAL), bucket),
                           ZEBRA_ROUTE_TOTAL), bucket)
        ELSE n

\* The body of RNODE_FOREACH_RE in vty_show_ip_route_summary.
summary_entry(n, re) ==
    LET is_ibgp == re.type = ZEBRA_ROUTE_BGP /\ CHECK_FLAG(re.flags, ZEBRA_FLAG_IBGP)
        bucket == IF is_ibgp THEN ZEBRA_ROUTE_IBGP ELSE re.type
        n1 == IncRib(IncRib(n, ZEBRA_ROUTE_TOTAL), bucket)
    IN  IF CHECK_FLAG(re.flags, ZEBRA_FLAG_SELECTED)
        THEN IncFib(IncFib(n1, ZEBRA_ROUTE_TOTAL), bucket)
        ELSE n1

\* The nexthop loop without its test of cnt: every nexthop is visited.
RECURSIVE summary_prefix_nexthops_Every(_, _, _, _)
summary_prefix_nexthops_Every(n, re, j, cnt) ==
    IF ~(j <= Len(re.nexthop)) THEN n
    ELSE LET fib == CHECK_FLAG(re.nexthop[j].flags, NEXTHOP_FLAG_FIB)
             ibgp == re.type = ZEBRA_ROUTE_BGP
                         /\ CHECK_FLAG(re.flags, ZEBRA_FLAG_IBGP)
             n1 == IncRib(IncRib(n, ZEBRA_ROUTE_TOTAL), re.type)
             n2 == IF fib THEN IncFib(IncFib(n1, ZEBRA_ROUTE_TOTAL), re.type)
                   ELSE n1
             n3 == IF ibgp THEN IncRib(n2, ZEBRA_ROUTE_IBGP) ELSE n2
             n4 == IF ibgp /\ fib THEN IncFib(n3, ZEBRA_ROUTE_IBGP) ELSE n3
         IN  summary_prefix_nexthops_Every(n4, re, j + 1, cnt + 1)

\* for (nexthop = re->nexthop; (!cnt && nexthop); nexthop = nexthop->next)
\* of vty_show_ip_route_summary_prefix.
RECURSIVE summary_prefix_nexthops(_, _, _, _)
summary_prefix_nexthops(n, re, j, cnt) ==
    IF ~(cnt = 0 /\ j <= Len(re.nexthop)) THEN n
    ELSE LET fib == CHECK_FLAG(re.nexthop[j].flags, NEXTHOP_FLAG_FIB)
             ibgp == re.type = ZEBRA_ROUTE_BGP
                         /\ CHECK_FLAG(re.flags, ZEBRA_FLAG_IBGP)
             n1 == IncRib(IncRib(n, ZEBRA_ROUTE_TOTAL), re.type)
             n2 == IF fib THEN IncFib(IncFib(n1, ZEBRA_ROUTE_TOTAL), re.type)
                   ELSE n1
             n3 == IF ibgp THEN IncRib(n2, ZEBRA_ROUTE_IBGP) ELSE n2
             n4 == IF ibgp /\ fib THEN IncFib(n3, ZEBRA_ROUTE_IBGP) ELSE n3
         IN  summary_prefix_nexthops(n4, re, j + 1, cnt + 1)

summary_prefix_entry(n, re) == summary_prefix_nexthops(n, re, 1, 0)

\* RNODE_FOREACH_RE(rn, re) of the two summaries.
RECURSIVE summary_entries(_, _, _, _)
summary_entries(n, info, i, prefix_mode) ==
    IF i > Len(info) THEN n
    ELSE summary_entries(IF prefix_mode THEN summary_prefix_entry(n, info[i])
                         ELSE summary_entry(n, info[i]),
                         info, i + 1, prefix_mode)

\* for (rn = route_top(table); rn; rn = srcdest_route_next(rn))
RECURSIVE summary_walk(_, _, _, _)
summary_walk(t, rn, n, prefix_mode) ==
    IF rn = NoNode THEN [t |-> t, n |-> n]
    ELSE LET nx == route_next(t, rn)
         IN  summary_walk(nx.t, nx.rn,
                          summary_entries(n, NodeOf(t, rn).info, 1, prefix_mode),
                          prefix_mode)

\* A printed row of a summary.
Row(name, routes, fib) ==
    [k |-> "row", name |-> name, routes |-> routes, fib |-> fib]

\* The rows of the per-route summary with the BGP pair printed only when
\* rib_cnt[ZEBRA_ROUTE_BGP] > 0.
RECURSIVE summary_rows_EbgpOnly(_, _)
summary_rows_EbgpOnly(n, i) ==
    IF i > Len(RouteTypes) THEN <<>>
    ELSE LET t == RouteTypes[i]
         IN  (IF n.rib_cnt[t] > 0
              THEN IF t = ZEBRA_ROUTE_BGP
                   THEN <<Row("ebgp", n.rib_cnt[ZEBRA_ROUTE_BGP],
                              n.fib_cnt[ZEBRA_ROUTE_BGP]),
                          Row("ibgp", n.rib_cnt[ZEBRA_ROUTE_IBGP],
                              n.fib_cnt[ZEBRA_ROUTE_IBGP])>>
                   ELSE <<Row(t, n.rib_cnt[t], n.fib_cnt[t])>>
              ELSE <<>>)
             \o summary_rows_EbgpOnly(n, i + 1)

\* for (i = 0; i < ZEBRA_ROUTE_MAX; i++) of vty_show_ip_route_summary
RECURSIVE summary_rows(_, _)
summary_rows(n, i) ==
    IF i > Len(RouteTypes) THEN <<>>
    ELSE LET t == RouteTypes[i]
         IN  (IF n.rib_cnt[t] > 0
                  \/ (t = ZEBRA_ROUTE_BGP /\ n.rib_cnt[ZEBRA_ROUTE_IBGP] > 0)
              THEN IF t = ZEBRA_ROUTE_BGP
                   THEN <<Row("ebgp", n.rib_cnt[ZEBRA_ROUTE_BGP],
                              n.fib_cnt[ZEBRA_ROUTE_BGP]),
                          Row("ibgp", n.rib_cnt[ZEBRA_ROUTE_IBGP],
                              n.fib_cnt[ZEBRA_ROUTE_IBGP])>>
                   ELSE <<Row(t, n.rib_cnt[t], n.fib_cnt[t])>>
              ELSE <<>>)
             \o summary_rows(n, i + 1)

\* The rows of the per-prefix summary with the eBGP row printed as the BGP
\* counters, the internal routes not taken off.
RECURSIVE summary_prefix_rows_NoMinus(_, _)
summary_prefix_rows_NoMinus(n, i) ==
    IF i > Len(RouteTypes) THEN <<>>
    ELSE LET t == RouteTypes[i]
         IN  (IF n.rib_cnt[t] > 0
              THEN IF t = ZEBRA_ROUTE_BGP
                   THEN <<Row("ebgp", n.rib_cnt[ZEBRA_ROUTE_BGP],
                              n.fib_cnt[ZEBRA_ROUTE_BGP]),
                          Row("ibgp", n.rib_cnt[ZEBRA_ROUTE_IBGP],
                              n.fib_cnt[ZEBRA_ROUTE_IBGP])>>
                   ELSE <<Row(t, n.rib_cnt[t], n.fib_cnt[t])>>
              ELSE <<>>)
             \o summary_prefix_rows_NoMinus(n, i + 1)

\* for (i = 0; i < ZEBRA_ROUTE_MAX; i++) of vty_show_ip_route_summary_prefix;
\* the differences are printed with %d.
RECURSIVE summary_prefix_rows(_, _)
summary_prefix_rows(n, i) ==
    IF i > Len(RouteTypes) THEN <<>>
    ELSE LET t == RouteTypes[i]
         IN  (IF n.rib_cnt[t] > 0
              THEN IF t = ZEBRA_ROUTE_BGP
                   THEN <<Row("ebgp",
                              n.rib_cnt[ZEBRA_ROUTE_BGP] - n.rib_cnt[ZEBRA_ROUTE_IBGP],
                              n.fib_cnt[ZEBRA_ROUTE_BGP] - n.fib_cnt[ZEBRA_ROUTE_IBGP]),
                          Row("ibgp", n.rib_cnt[ZEBRA_ROUTE_IBGP],
                              n.fib_cnt[ZEBRA_ROUTE_IBGP])>>
                   ELSE <<Row(t, n.rib_cnt[t], n.fib_cnt[t])>>
              ELSE <<>>)
             \o summary_prefix_rows(n, i + 1)

\* vty_show_ip_route_summary(vty, table) and
\* vty_show_ip_route_summary_prefix(vty, table), on the table of a VRF.  A
\* NULL table is dereferenced by route_top: the command is killed.
vty_show_ip_route_summary_any(c, vrf, key, prefix_mode) ==
    LET table == c.rib[vrf].table[key]
        c1 == [c EXCEPT !.walked =
                   Append(@, [fn |-> IF prefix_mode
                                     THEN "vty_show_ip_route_summary_prefix"
                                     ELSE "vty_show_ip_route_summary",
                              vrf |-> vrf, null |-> table.null])]
        top == route_top(table)
        w == summary_walk(top.t, top.rn, NoCounts, prefix_mode)
    IN  IF c.ret = SIGSEGV THEN c
        ELSE IF table.null THEN [c1 EXCEPT !.ret = SIGSEGV]
        ELSE [c1 EXCEPT
                 !.rib[vrf].table[key] = w.t,
                 !.out = @ \o <<Text(IF prefix_mode THEN "Prefix Routes"
                                     ELSE "Routes"),
                                Text(vrf)>>
                           \o (IF prefix_mode THEN summary_prefix_rows(w.n, 1)
                               ELSE summary_rows(w.n, 1))
                           \o <<Text("------"),
                                Row("Totals", w.n.rib_cnt[ZEBRA_ROUTE_TOTAL],
                                    w.n.fib_cnt[ZEBRA_ROUTE_TOTAL])>>]

vty_show_ip_route_summary(c, vrf, key) ==
    vty_show_ip_route_summary_any(c, vrf, key, FALSE)
vty_show_ip_route_summary_prefix(c, vrf, key) ==
    vty_show_ip_route_summary_any(c, vrf, key, TRUE)

\* The body of DEFUN (show_ip_route_summary), (show_ip_route_summary_prefix)
\* and their IPv6 twins: "show ip route [vrf NAME] summary [prefix]".
show_route_summary_body(c, afi, argv) ==
    LET has_vrf == argv[4].text = "vrf"
        vrf_id == IF has_vrf THEN VRF_GET_ID(c.rib, argv[5].arg) ELSE VRF_DEFAULT
        vrf == vrf_lookup_by_id(c.rib, vrf_id)
        key == <<afi, SAFI_UNICAST>>
        prefix_mode == argv[Len(argv)].text = "prefix"
    IN  IF zebra_vrf_table(c.rib, afi, SAFI_UNICAST, vrf_id).null
        THEN [c EXCEPT !.ret = CMD_SUCCESS]
        ELSE [(IF prefix_mode THEN vty_show_ip_route_summary_prefix(c, vrf, key)
               ELSE vty_show_ip_route_summary(c, vrf, key))
                 EXCEPT !.ret = CMD_SUCCESS]

\* RB_FOREACH(vrf, vrf_name_head, &vrfs_by_name) if ((zvrf = vrf->info) != NULL)
\*     vty_show_ip_route_summary[_prefix](vty, zvrf->table[afi][SAFI_UNICAST]);
RECURSIVE show_route_vrf_all_summary_loop(_, _, _, _, _)
show_route_vrf_all_summary_loop(c, afi, prefix_mode, names, i) ==
    IF i > Len(names) THEN c
    ELSE show_route_vrf_all_summary_loop(
             IF prefix_mode
             THEN vty_show_ip_route_summary_prefix(c, names[i], <<afi, SAFI_UNICAST>>)
             ELSE vty_show_ip_route_summary(c, names[i], <<afi, SAFI_UNICAST>>),
             afi, prefix_mode, names, i + 1)

\* The body of DEFUN (show_ip_route_vrf_all_summary),
\* (show_ip_route_vrf_all_summary_prefix) and their IPv6 twins.
show_route_vrf_all_summary_body(c, afi, argv) ==
    LET c1 == show_route_vrf_all_summary_loop(c, afi,
                  argv[Len(argv)].text = "prefix",
                  vrfs_by_name(DOMAIN c.rib), 1)
    IN  IF c1.ret = SIGSEGV THEN c1 ELSE [c1 EXCEPT !.ret = CMD_SUCCESS]

\* The word of a command line after "vrf" is "all".
vrf_all_tkns(argv) == argv_find(argv, "vrf") # 0 /\ argv[5].arg = "all"

\* The afi of a command line: "show ip ..." or "show ipv6 ...".
line_afi(argv) == IF argv[2].text = "ip" THEN AFI_IP ELSE AFI_IP6

\* No node of the RIB is referenced cap times or more.
LocksBelow(r, cap) ==
    \A n \in DOMAIN r, k \in TableKeys :
        \A x \in r[n].table[k].nodes : x.lock < cap

\* DEFUN (show_ip_route_addr), (show_ip_route_prefix), (show_ipv6_route_addr),
\* (show_ipv6_route_prefix): the address form and the prefix form of
\* "show ip route [vrf NAME] <A.B.C.D|A.B.C.D/M>".  The prefix form is run
\* while the reference counts are below cap.
show_route_addr(Lines) ==
    /\ last = NoCall
    /\ \E argv \in Lines :
          /\ vrf_tkns(argv) /\ ~vrf_all_tkns(argv)
          /\ ShowInvoke("show route addr", argv,
                 show_route_at_body(ShowContext(rib), line_afi(argv), argv, FALSE))

show_route_prefix(Lines, cap) ==
    /\ last = NoCall
    /\ LocksBelow(rib, cap)
    /\ \E argv \in Lines :
          /\ vrf_tkns(argv) /\ ~vrf_all_tkns(argv)
          /\ ShowInvoke("show route prefix", argv,
                 show_route_at_body(ShowContext(rib), line_afi(argv), argv, TRUE))

\* DEFUN (show_ip_route_vrf_all_addr), (show_ip_route_vrf_all_prefix) and
\* their IPv6 twins.
show_route_vrf_all_addr(Lines) ==
    /\ last = NoCall
    /\ \E argv \in Lines :
          /\ vrf_all_tkns(argv)
          /\ ShowInvoke("show route vrf all addr", argv,
                 show_route_vrf_all_at_body(ShowContext(rib), line_afi(argv),
                                            argv, FALSE))

show_route_vrf_all_prefix(Lines) ==
    /\ last = NoCall
    /\ \E argv \in Lines :
          /\ vrf_all_tkns(argv)
          /\ ShowInvoke("show route vrf all prefix", argv,
                 show_route_vrf_all_at_body(ShowContext(rib), line_afi(argv),
                                            argv, TRUE))

\* DEFUN (show_ip_route_summary), (show_ip_route_summary_prefix) and their
\* IPv6 twins.
show_route_summary(Lines) ==
    /\ last = NoCall
    /\ \E argv \in Lines :
          /\ vrf_tkns(argv) /\ ~vrf_all_tkns(argv)
          /\ ShowInvoke("show route summary", argv,
                 show_route_summary_body(ShowContext(rib), line_afi(argv), argv))

\* DEFUN (show_ip_route_vrf_all_summary), (..._vrf_all_summary_prefix) and
\* their IPv6 twins.
show_route_vrf_all_summary(Lines) ==
    /\ last = NoCall
    /\ \E argv \in Lines :
          /\ vrf_all_tkns(argv)
          /\ ShowInvoke("show route vrf all summary", argv,
                 show_route_vrf_all_summary_body(ShowContext(rib),
                                                 line_afi(argv), argv))

-----------------------------------------------------------------------------
(* Events of the RIB                                                       *)

\* A route entry as the show commands read it.
RouteEntry(type, instance, tag, flags, status, nexthop) ==
    [type |-> type, instance |-> instance, tag |-> tag, flags |-> flags,
     status |-> status, nexthop |-> nexthop]

\* A nexthop as the show commands read it.
Nexthop(flags) == [flags |-> flags]

\* The number of entries of a table, and of the RIB.
RECURSIVE SumLen(_)
SumLen(nodes) ==
    IF nodes = {} THEN 0
    ELSE LET n == CHOOSE n \in nodes : TRUE
         IN  Len(n.info) + SumLen(nodes \ {n})

RibSize(r) ==
    LET tabs == {<<n, k>> : n \in DOMAIN r, k \in TableKeys}
        Size[S \in SUBSET tabs] ==
            IF S = {} THEN 0
            ELSE LET x == CHOOSE x \in S : TRUE
                 IN  SumLen(r[x[1]].table[x[2]].nodes) + Size[S \ {x}]
    IN  Size[tabs]

\* rib_add: the RIB gets an entry, at the end of the list of its node; a
\* new node is referenced once, by the RIB.
rib_add(Keys, Prefixes, Entries, cap) ==
    /\ last = NoCall
    /\ RibSize(rib) < cap
    /\ \E n \in DOMAIN rib, k \in Keys, p \in Prefixes, re \in Entries :
          LET t == rib[n].table[k]
          IN  /\ ~t.null
              /\ p.family = afi2family(k[1])
              /\ rib' = [rib EXCEPT ![n].table[k].nodes =
                    IF \E m \in t.nodes : m.p = p
                    THEN {IF m.p = p THEN [m EXCEPT !.info = Append(@, re)]
                          ELSE m : m \in t.nodes}
                    ELSE t.nodes \cup {[p |-> p, lock |-> 1, info |-> <<re>>]}]
    /\ UNCHANGED <<vrfs, ifs, mpls_enabled, stable, last, globals>>

\* A VRF is disabled: it loses its id and its tables.
vrf_disable ==
    /\ last = NoCall
    /\ \E v \in vrfs :
          /\ rib[v].vrf_id # VRF_UNKNOWN
          /\ rib' = [rib EXCEPT ![v] = InactiveVrf]
    /\ UNCHANGED <<vrfs, ifs, mpls_enabled, stable, last, globals>>

\* A VRF is enabled again.
vrf_enable ==
    /\ last = NoCall
    /\ \E v \in vrfs :
          /\ rib[v].vrf_id = VRF_UNKNOWN
          /\ rib' = [rib EXCEPT ![v] = ActiveVrf(v)]
    /\ UNCHANGED <<vrfs, ifs, mpls_enabled, stable, last, globals>>

\* The show commands do not read the MPLS switch: their specifications
\* start with it off.
InitRead == Init /\ mpls_enabled = FALSE

-----------------------------------------------------------------------------
(* SpecShow: show ip route and do_show_ip_route over IPv4 tables of the    *)
(* default VRF, under every filter.                                        *)

\* The largest number of route entries under SpecShow.
MaxShowRoutes == 2

\* 10.1.0.0/16 (class A), 172.16.0.0/12 and 172.16.0.0/16 (class B),
\* 192.168.1.0/24 (class C), 224.0.0.0/4 (class D).
ShowPrefixes ==
    {P4(10, 1, 0, 0, 16), P4(172, 16, 0, 0, 12), P4(172, 16, 0, 0, 16),
     P4(192, 168, 1, 0, 24), P4(224, 0, 0, 0, 4)}

ShowEntries ==
    {RouteEntry(ZEBRA_ROUTE_STATIC, 0, 7, {ZEBRA_FLAG_SELECTED},
                {ROUTE_ENTRY_SELECTED_FIB}, <<Nexthop({NEXTHOP_FLAG_FIB})>>),
     RouteEntry(ZEBRA_ROUTE_STATIC, 0, 0, {ZEBRA_FLAG_SELECTED}, {},
                <<Nexthop({})>>),
     RouteEntry(ZEBRA_ROUTE_OSPF, 2, 7, {}, {}, <<Nexthop({})>>)}

ShowScopes == {Tok("fib", "fib"), Tok("route", "route"), Tok("route", "ro")}

ShowFilters ==
    {<<>>,
     <<Kw("tag"), Tok("(1-4294967295)", "7")>>,
     <<Tok("A.B.C.D/M", "10.0.0.0/8"), Kw("longer-prefixes")>>,
     <<Kw("supernets-only")>>,
     <<Kw("static")>>,
     <<Kw("ospf")>>,
     <<Kw("ospf"), Tok("(1-65535)", "2")>>}

ShowLines ==
    {<<Kw("show"), Kw("ip"), s>> \o f \o j :
        s \in ShowScopes, f \in ShowFilters, j \in {<<>>, <<Kw("json")>>}}

ShowArgs ==
    [vrf_name : {VRF_DEFAULT_NAME}, afi : {AFI_IP}, safi : {SAFI_UNICAST},
     use_fib : BOOLEAN, use_json : {FALSE}, tag : {0, 7},
     longer_prefix_p : {NoPrefix, P4(10, 0, 0, 0, 8)},
     supernets_only : BOOLEAN,
     type : {ZEBRA_ROUTE_SYSTEM, ZEBRA_ROUTE_OSPF},
     ospf_instance_id : {0, 2}]

NextShow ==
    \/ show_ip_route(ShowLines)
    \/ do_show_ip_route_args(ShowArgs)
    \/ rib_add({<<AFI_IP, SAFI_UNICAST>>}, ShowPrefixes, ShowEntries,
               MaxShowRoutes)
    \/ vty_prompt

SpecShow == InitRead /\ [][NextShow]_vars

-----------------------------------------------------------------------------
(* What the claims about the show commands speak of                        *)

ShowRouteCmds == {"show ip route", "show ipv6 route", "do_show_ip_route"}

\* A show-route command is on the vty and it made one call of
\* do_show_ip_route, on a table that exists.
ShowRouteCalled == last # NoCall /\ last.cmd \in ShowRouteCmds
TheCall == last.calls[1]
OneWalk ==
    /\ ShowRouteCalled
    /\ Len(last.calls) = 1
    /\ Len(last.walked) = 1

\* The table the call walked, as it was before the command.
TableWalked ==
    last.before[last.walked[1].vrf].table[<<TheCall.afi, TheCall.safi>>]

\* The entries of a table: node prefix and position in the node's list.
EntriesOf(t) == UNION {{<<n.p, i>> : i \in 1..Len(n.info)} : n \in t.nodes}
EntryAt(t, x) == NodeOf(t, x[1]).info[x[2]]

\* How often an output renders the entry x: its text lines, and its
\* elements in the arrays of a structured output.
JsonCount(obj, x) ==
    LET PerPrefix[j \in 0..Len(obj)] ==
            IF j = 0 THEN 0
            ELSE PerPrefix[j - 1]
                 + (IF obj[j][1] = x[1]
                    THEN Cardinality({k \in 1..Len(obj[j][2]) :
                                         obj[j][2][k].i = x[2]})
                    ELSE 0)
    IN  PerPrefix[Len(obj)]

RenderCount(out, x) ==
    LET PerItem[j \in 0..Len(out)] ==
            IF j = 0 THEN 0
            ELSE PerItem[j - 1]
                 + (CASE out[j].k = "route" ->
                            IF <<out[j].p, out[j].i>> = x THEN 1 ELSE 0
                      [] out[j].k = "json" -> JsonCount(out[j].obj, x)
                      [] OTHER -> 0)
    IN  PerItem[Len(out)]

\* Everything an output renders, whatever it is.
JsonTotal(obj) ==
    LET PerPrefix[j \in 0..Len(obj)] ==
            IF j = 0 THEN 0 ELSE PerPrefix[j - 1] + Len(obj[j][2])
    IN  PerPrefix[Len(obj)]

RenderTotal(out) ==
    LET PerItem[j \in 0..Len(out)] ==
            IF j = 0 THEN 0
            ELSE PerItem[j - 1]
                 + (CASE out[j].k = "route" -> 1
                      [] out[j].k = "json" -> JsonTotal(out[j].obj)
                      [] OTHER -> 0)
    IN  PerItem[Len(out)]

\* The criteria of the filter, each on its own.
FibInstalled(re) == ROUTE_ENTRY_SELECTED_FIB \in re.status
Covers(ref, p) ==
    /\ ref.prefixlen <= p.prefixlen
    /\ apply_mask([p EXCEPT !.prefixlen = ref.prefixlen]).addr
           = apply_mask(ref).addr

\* The classful boundary of an address of class A, B or C; an address of
\* class D or E has none (0 here).
ClassfulBoundary(addr) ==
    CASE addr[1] < 128 -> 8
      [] addr[1] < 192 -> 16
      [] addr[1] < 224 -> 24
      [] OTHER -> 0
AtOrBeyondBoundary(p) ==
    ClassfulBoundary(p.addr) # 0 /\ p.prefixlen >= ClassfulBoundary(p.addr)

AllCriteriaHold(a, p, re) ==
    /\ a.use_fib => FibInstalled(re)
    /\ a.tag # 0 => re.tag = a.tag
    /\ a.longer_prefix_p # NoPrefix => Covers(a.longer_prefix_p, p)
    /\ a.supernets_only => ~AtOrBeyondBoundary(p)
    /\ a.type # ZEBRA_ROUTE_SYSTEM => re.type = a.type
    /\ a.ospf_instance_id # 0 =>
          re.type = ZEBRA_ROUTE_OSPF /\ re.instance = a.ospf_instance_id

Supplied(a) ==
    {c \in {"fib", "tag", "longer", "supernets", "type", "instance"} :
        \/ c = "fib" /\ a.use_fib
        \/ c = "tag" /\ a.tag # 0
        \/ c = "longer" /\ a.longer_prefix_p # NoPrefix
        \/ c = "supernets" /\ a.supernets_only
        \/ c = "type" /\ a.type # ZEBRA_ROUTE_SYSTEM
        \/ c = "instance" /\ a.ospf_instance_id # 0}

HasToken(text) ==
    \E i \in 1..Len(last.argv) : last.argv[i].text = text

\* The entries of the walked table the output renders.
Shown == {x \in EntriesOf(TableWalked) : RenderCount(last.out, x) > 0}

\* C13: show ip route with the filter supernets-only shows only entries whose
\* prefix length is strictly shorter than the classful boundary of their
\* address (class A < 8, class B < 16, class C < 24): no entry at or beyond
\* its boundary is in the output.
C13_SupernetsOnlyShown ==
    (OneWalk /\ last.cmd = "show ip route" /\ HasToken("supernets-only")) =>
        \A x \in Shown : ~AtOrBeyondBoundary(x[1])

\* What the command on the vty would have shown of the table it walked, had
\* it been given that scope word or, for a direct call, that use_fib.
ContextWithScope(word, fib) ==
    IF last.cmd = "do_show_ip_route"
    THEN do_show_ip_route(ShowContext(last.before),
                          [TheCall EXCEPT !.use_fib = fib])
    ELSE show_route_body(ShowContext(last.before), TheCall.afi,
                         [last.argv EXCEPT ![3] = Tok(word, word)])
ShownWithScope(word, fib) ==
    LET out == ContextWithScope(word, fib).out
    IN  {x \in EntriesOf(TableWalked) : RenderCount(out, x) > 0}

\* C14: filter composition is monotone.  On every table, what show-route
\* shows with the scope fib is a subset of what it shows with the scope
\* route under the same filter (type=static among them), every entry shown
\* with the scope fib is fib-installed, and so adding the fib-only criterion
\* never adds an entry.
C14_FibScopeIsSubset ==
    OneWalk =>
        /\ ShownWithScope("fib", TRUE) \subseteq ShownWithScope("route", FALSE)
        /\ \A x \in ShownWithScope("fib", TRUE) :
              FibInstalled(EntryAt(TableWalked, x))

\* show ip fib static on a table with a static entry that is fib-installed
\* and one that is not: the first is shown, the second only with the scope
\* route.
C14_Witness ==
    /\ OneWalk
    /\ last.cmd = "show ip route"
    /\ TheCall.use_fib
    /\ TheCall.type = ZEBRA_ROUTE_STATIC
    /\ Shown # {}
    /\ Shown # ShownWithScope("route", FALSE)

-----------------------------------------------------------------------------
(* SpecVrf: the read commands over VRFs that come, go, are disabled and    *)
(* enabled again.                                                          *)

\* The largest RIB under SpecVrf.
MaxVrfRoutes == 1

VrfPrefixes == {P4(10, 1, 0, 0, 16)}
VrfEntries ==
    {RouteEntry(ZEBRA_ROUTE_STATIC, 0, 0, {ZEBRA_FLAG_SELECTED},
                {ROUTE_ENTRY_SELECTED_FIB}, <<Nexthop({NEXTHOP_FLAG_FIB})>>)}

VrfWords == {<<>>, <<Kw("vrf"), Tok("NAME", "red")>>,
             <<Kw("vrf"), Tok("NAME", "all")>>}

\* "show ip route [vrf NAME] [json]"
VrfLines ==
    {<<Kw("show"), Kw("ip"), Kw("route")>> \o v \o j :
        v \in VrfWords, j \in {<<>>, <<Kw("json")>>}}

\* "show ip route vrf all <A.B.C.D|A.B.C.D/M>"
VrfAllAddrLines ==
    {<<Kw("show"), Kw("ip"), Kw("route"), Kw("vrf"), Kw("all"),
       Tok("A.B.C.D", "10.1.2.3")>>}
VrfAllPrefixLines ==
    {<<Kw("show"), Kw("ip"), Kw("route"), Kw("vrf"), Kw("all"),
       Tok("A.B.C.D/M", "10.1.0.0/16")>>}

\* "show <ip|ipv6> route vrf all summary [prefix]"
VrfAllSummaryLines ==
    {<<Kw("show"), Kw(ip), Kw("route"), Kw("vrf"), Kw("all"), Kw("summary")>>
        \o p : ip \in {"ip", "ipv6"}, p \in {<<>>, <<Kw("prefix")>>}}

VrfArgs ==
    [vrf_name : {VRF_DEFAULT_NAME, "red", "blue"}, afi : {AFI_IP},
     safi : {SAFI_UNICAST, SAFI_MPLS_VPN},
     use_fib : {FALSE}, use_json : BOOLEAN, tag : {0},
     longer_prefix_p : {NoPrefix}, supernets_only : {FALSE},
     type : {ZEBRA_ROUTE_SYSTEM}, ospf_instance_id : {0}]

NextVrf ==
    \/ show_ip_route(VrfLines)
    \/ do_show_ip_route_args(VrfArgs)
    \/ show_route_vrf_all_addr(VrfAllAddrLines)
    \/ show_route_vrf_all_prefix(VrfAllPrefixLines)
    \/ show_route_vrf_all_summary(VrfAllSummaryLines)
    \/ rib_add({<<AFI_IP, SAFI_UNICAST>>}, VrfPrefixes, VrfEntries, MaxVrfRoutes)
    \/ vrf_create
    \/ vrf_disable
    \/ vrf_enable
    \/ vrf_delete
    \/ vty_prompt

SpecVrf == InitRead /\ [][NextVrf]_vars

-----------------------------------------------------------------------------
(* C15, C16: the VRFs a read command finds absent.                         *)

\* The VRF a call of do_show_ip_route names is not defined, is inactive or
\* has no table for the call's (afi, safi), in the RIB the command ran on.
VrfAbsent(r, a) ==
    \/ a.vrf_name \notin DOMAIN r
    \/ r[a.vrf_name].vrf_id = VRF_UNKNOWN
    \/ <<a.afi, a.safi>> \notin TableKeys
    \/ r[a.vrf_name].table[<<a.afi, a.safi>>].null

SingleVrfCall ==
    /\ ShowRouteCalled
    /\ Len(last.calls) = 1
    /\ argv_find(last.argv, "vrf") # 0 => ~vrf_all_tkns(last.argv)

C15_InactiveWitness ==
    /\ SingleVrfCall
    /\ TheCall.use_json
    /\ TheCall.vrf_name \in DOMAIN last.before
    /\ last.before[TheCall.vrf_name].vrf_id = VRF_UNKNOWN
    /\ last.ret = CMD_SUCCESS

C15_NoTableWitness ==
    /\ SingleVrfCall
    /\ TheCall.use_json
    /\ TheCall.vrf_name \in DOMAIN last.before
    /\ last.before[TheCall.vrf_name].vrf_id # VRF_UNKNOWN
    /\ VrfAbsent(last.before, TheCall)
    /\ last.out = <<Text("{}")>>

\* The read commands with an all-VRF form.
AllVrfCalled ==
    /\ last # NoCall
    /\ last.cmd \in {"show ip route", "show ipv6 route",
                     "show route vrf all addr", "show route vrf all prefix",
                     "show route vrf all summary"}
    /\ vrf_all_tkns(last.argv)

\* C16: in all-VRF mode no walker, renderer or summary aggregator is
\* invoked with an absent table.
C16_NoAbsentTableVisited ==
    AllVrfCalled => \A i \in 1..Len(last.walked) : ~last.walked[i].null

\* The part of C16 that holds of show-route and show-route-at: the VRFs
\* with a table are visited in name order and the others are skipped.
C16_RouteAndAtSkipAbsent ==
    AllVrfCalled /\ last.cmd # "show route vrf all summary"
        => LET afi == line_afi(last.argv)
               with == SelectSeq(vrfs_by_name(DOMAIN last.before),
                          LAMBDA n : ~last.before[n].table[<<afi, SAFI_UNICAST>>].null)
           IN  /\ Len(last.walked) = Len(with)
               /\ \A i \in 1..Len(with) :
                     /\ last.walked[i].vrf = with[i]
                     /\ ~last.walked[i].null

C16_RouteAndAtWitness ==
    /\ AllVrfCalled
    /\ last.cmd = "show route vrf all addr"
    /\ Len(last.walked) = 1
    /\ Cardinality(DOMAIN last.before) = 2

-----------------------------------------------------------------------------
(* SpecAt: the lookups of one address or one prefix, among the other read  *)
(* commands, on tables of both families.                                   *)

\* The largest RIB under SpecAt, and the reference count at which the
\* prefix form is no longer run.
MaxAtRoutes == 2
MaxAtLock == 3

AtPrefixes ==
    {P4(10, 0, 0, 0, 8), P4(10, 1, 0, 0, 16), P6(13, 184, 0, 32)}
AtEntries ==
    {RouteEntry(ZEBRA_ROUTE_STATIC, 0, 0, {ZEBRA_FLAG_SELECTED},
                {ROUTE_ENTRY_SELECTED_FIB}, <<Nexthop({NEXTHOP_FLAG_FIB})>>)}

AtVrfWords == {<<>>, <<Kw("vrf"), Tok("NAME", "red")>>}

\* "show ip route [vrf NAME] A.B.C.D", "show ipv6 route [vrf NAME] X:X::X:X"
AtAddrLines ==
    {<<Kw("show"), Kw("ip"), Kw("route")>> \o v \o <<Tok("A.B.C.D", a)>> :
        v \in AtVrfWords, a \in {"10.1.2.3", "192.0.2.1"}}
    \cup {<<Kw("show"), Kw("ipv6"), Kw("route"), Tok("X:X::X:X", "2001:db8::1")>>}

\* "show ip route [vrf NAME] A.B.C.D/M",
\* "show ipv6 route [vrf NAME] X:X::X:X/M"
AtPrefixLines ==
    {<<Kw("show"), Kw("ip"), Kw("route")>> \o v \o <<Tok("A.B.C.D/M", a)>> :
        v \in AtVrfWords, a \in {"10.1.0.0/16", "10.1.0.0/24"}}
    \cup {<<Kw("show"), Kw("ipv6"), Kw("route"),
            Tok("X:X::X:X/M", a)>> : a \in {"2001:db8::/32", "2001:db8::/48"}}

\* "show ip route vrf all A.B.C.D", "show ip route vrf all A.B.C.D/M"
AtAllAddrLines ==
    {<<Kw("show"), Kw("ip"), Kw("route"), Kw("vrf"), Kw("all"),
       Tok("A.B.C.D", "10.1.2.3")>>}
AtAllPrefixLines ==
    {<<Kw("show"), Kw("ip"), Kw("route"), Kw("vrf"), Kw("all"),
       Tok("A.B.C.D/M", a)>> : a \in {"10.1.0.0/16", "10.1.0.0/24"}}

\* "show ip route", "show ip route [vrf NAME] summary [prefix]"
AtRouteLines == {<<Kw("show"), Kw("ip"), Kw("route")>>}
AtSummaryLines ==
    {<<Kw("show"), Kw("ip"), Kw("route")>> \o v \o <<Kw("summary")>> \o p :
        v \in AtVrfWords, p \in {<<>>, <<Kw("prefix")>>}}

NextAt ==
    \/ show_route_addr(AtAddrLines)
    \/ show_route_prefix(AtPrefixLines, MaxAtLock)
    \/ show_route_vrf_all_addr(AtAllAddrLines)
    \/ show_route_vrf_all_prefix(AtAllPrefixLines)
    \/ show_ip_route(AtRouteLines)
    \/ show_route_summary(AtSummaryLines)
    \/ rib_add({<<AFI_IP, SAFI_UNICAST>>, <<AFI_IP6, SAFI_UNICAST>>},
               AtPrefixes, AtEntries, MaxAtRoutes)
    \/ vrf_create
    \/ vty_prompt

SpecAt == InitRead /\ [][NextAt]_vars

-----------------------------------------------------------------------------
(* C17, C18: the lookups of one address or one prefix.                     *)

ReadCmds ==
    ShowRouteCmds \cup
    {"show route addr", "show route prefix", "show route vrf all addr",
     "show route vrf all prefix", "show route summary",
     "show route vrf all summary"}
ReadCalled == last # NoCall /\ last.cmd \in ReadCmds

\* Every node the RIB had before the command is there after it with the
\* lock count it had, and no node was added.
LocksAsBefore ==
    /\ DOMAIN rib = DOMAIN last.before
    /\ \A n \in DOMAIN rib, k \in TableKeys :
          /\ {x.p : x \in rib[n].table[k].nodes}
                = {x.p : x \in last.before[n].table[k].nodes}
          /\ \A x \in last.before[n].table[k].nodes :
                NodeOf(rib[n].table[k], x.p).lock = x.lock

\* C17: after a read command, whatever its result, the lock count of every
\* route node equals its value before the command.
C17_LocksBalanced == ReadCalled => LocksAsBefore

\* The part of C17 that holds: every read command but the single-VRF
\* prefix form leaves the lock counts as they were.
C17_OthersBalanced ==
    ReadCalled /\ last.cmd # "show route prefix" => LocksAsBefore

C17_OthersWitness ==
    /\ ReadCalled
    /\ last.cmd = "show route vrf all prefix"
    /\ \E n \in DOMAIN last.before :
          \E x \in last.before[n].table[<<AFI_IP, SAFI_UNICAST>>].nodes :
              x.p.prefixlen # str2prefix(last.argv[6].arg).prefixlen

\* The single-VRF lookups: their argument, VRF and table.
AtCalled == last # NoCall /\ last.cmd \in {"show route addr", "show route prefix"}
AtArg ==
    LET p == str2prefix(last.argv[Len(last.argv)].arg)
    IN  [family |-> p.family, addr |-> p.addr, prefixlen |-> p.prefixlen]
AtVrf ==
    IF argv_find(last.argv, "vrf") # 0 THEN last.argv[5].arg
    ELSE VRF_DEFAULT_NAME
AtTableOf(vrf) == last.before[vrf].table[<<line_afi(last.argv), SAFI_UNICAST>>]

\* The nodes with routes that cover the argument, and the longest of them.
Matches(t, p) == {x \in t.nodes : x.info # <<>> /\ prefix_match(x.p, p)}
Longest(t, p) ==
    CHOOSE x \in Matches(t, p) :
        \A y \in Matches(t, p) : y.p.prefixlen <= x.p.prefixlen
DetailOf(vrf, x) ==
    [i \in 1..Len(x.info) |-> DetailRecord(vrf, x.p, i, x.info[i])]

\* The lookup is answered: the argument has a longest match, of the
\* argument's own length when the argument is a prefix.
Answered(t, exact) ==
    /\ Matches(t, AtArg) # {}
    /\ exact => Longest(t, AtArg).p.prefixlen = AtArg.prefixlen

NotInTable == <<Text("% Network not in table")>>

\* What the all-VRF forms write: the answers of the VRFs in name order.
AllAtOutput(exact) ==
    LET names == vrfs_by_name(DOMAIN last.before)
        Upto[i \in 0..Len(names)] ==
            IF i = 0 THEN <<>>
            ELSE Upto[i - 1]
                 \o (IF ~AtTableOf(names[i]).null
                        /\ Answered(AtTableOf(names[i]), exact)
                     THEN DetailOf(names[i],
                                   Longest(AtTableOf(names[i]), AtArg))
                     ELSE <<>>)
    IN  Upto[Len(names)]

\* C18 (amended): the address form renders the detail record of the longest
\* match and warns 'not in table' only when nothing matches; the prefix form
\* renders the longest match only when it has the argument's prefix length,
\* and warns 'not in table' otherwise; the all-VRF forms do the same per VRF
\* without the warning.
C18_AtRendersLongestOrExact ==
    /\ AtCalled /\ ~AtTableOf(AtVrf).null
          => IF Answered(AtTableOf(AtVrf), last.cmd = "show route prefix")
             THEN /\ last.ret = CMD_SUCCESS
                  /\ last.out = DetailOf(AtVrf, Longest(AtTableOf(AtVrf), AtArg))
             ELSE /\ last.ret = CMD_WARNING
                  /\ last.out = NotInTable
    /\ last # NoCall
       /\ last.cmd \in {"show route vrf all addr", "show route vrf all prefix"}
          => /\ last.ret = CMD_SUCCESS
             /\ last.out = AllAtOutput(last.cmd = "show route vrf all prefix")

\* C18 as stated: both forms render the longest match whenever there is
\* one, and warn only when nothing matches.
C18_AtRendersLongestMatch ==
    AtCalled /\ ~AtTableOf(AtVrf).null
        => /\ Matches(AtTableOf(AtVrf), AtArg) # {}
              => /\ last.ret = CMD_SUCCESS
                 /\ last.out = DetailOf(AtVrf, Longest(AtTableOf(AtVrf), AtArg))
           /\ last.ret = CMD_WARNING => Matches(AtTableOf(AtVrf), AtArg) = {}

\* An address with two covering nodes is answered with the longer one; a
\* prefix is answered with its own node; a prefix whose longest match is
\* shorter is not in the table.
C18_Witness ==
    /\ AtCalled
    /\ last.cmd = "show route addr"
    /\ Cardinality(Matches(AtTableOf(AtVrf), AtArg)) = 2
    /\ last.ret = CMD_SUCCESS
    /\ last.out[1].p.prefixlen = 16

C18_PrefixWitness ==
    /\ AtCalled
    /\ last.cmd = "show route prefix"
    /\ Cardinality(Matches(AtTableOf(AtVrf), AtArg)) = 2
    /\ last.ret = CMD_SUCCESS

C18_MismatchWitness ==
    /\ AtCalled
    /\ last.cmd = "show route prefix"
    /\ Matches(AtTableOf(AtVrf), AtArg) # {}
    /\ last.ret = CMD_WARNING

-----------------------------------------------------------------------------
(* SpecSum: the two summaries of a table of BGP and static routes.         *)

\* The largest RIB under SpecSum.
MaxSumRoutes == 2

SumPrefixes == {P4(10, 0, 0, 0, 8), P4(10, 1, 0, 0, 16)}

\* An internal BGP route in the FIB, an external BGP route that is not
\* selected, a static route selected and not yet installed, a static
\* route installed through the second of its two nexthops, and an OSPF
\* route that came without a nexthop.
SumEntries ==
    {RouteEntry(ZEBRA_ROUTE_BGP, 0, 0, {ZEBRA_FLAG_SELECTED, ZEBRA_FLAG_IBGP},
                {ROUTE_ENTRY_SELECTED_FIB}, <<Nexthop({NEXTHOP_FLAG_FIB})>>),
     RouteEntry(ZEBRA_ROUTE_BGP, 0, 0, {}, {}, <<Nexthop({})>>),
     RouteEntry(ZEBRA_ROUTE_STATIC, 0, 0, {ZEBRA_FLAG_SELECTED}, {},
                <<Nexthop({})>>),
     RouteEntry(ZEBRA_ROUTE_STATIC, 0, 0, {ZEBRA_FLAG_SELECTED},
                {ROUTE_ENTRY_SELECTED_FIB},
                <<Nexthop({}), Nexthop({NEXTHOP_FLAG_FIB})>>),
     RouteEntry(ZEBRA_ROUTE_OSPF, 0, 0, {}, {}, <<>>)}

\* "show <ip|ipv6> route summary [prefix]"
SumLines ==
    {<<Kw("show"), Kw(ip), Kw("route"), Kw("summary")>> \o p :
        ip \in {"ip", "ipv6"}, p \in {<<>>, <<Kw("prefix")>>}}

\* "show ip route vrf all summary [prefix]"
SumAllLines ==
    {<<Kw("show"), Kw("ip"), Kw("route"), Kw("vrf"), Kw("all"), Kw("summary")>>
        \o p : p \in {<<>>, <<Kw("prefix")>>}}

NextSum ==
    \/ show_route_summary(SumLines)
    \/ show_route_vrf_all_summary(SumAllLines)
    \/ rib_add({<<AFI_IP, SAFI_UNICAST>>}, SumPrefixes, SumEntries, MaxSumRoutes)
    \/ vty_prompt

SpecSum == InitRead /\ [][NextSum]_vars

-----------------------------------------------------------------------------
(* C19, C20: what the summaries count.                                     *)

\* A summary ran on the IPv4 unicast table of the default VRF; per-route
\* or per-prefix.
SummaryCalled(prefix_mode) ==
    /\ last # NoCall
    /\ last.cmd \in {"show route summary", "show route vrf all summary"}
    /\ line_afi(last.argv) = AFI_IP
    /\ (last.argv[Len(last.argv)].text = "prefix") = prefix_mode
SumTable == last.before[VRF_DEFAULT_NAME].table[<<AFI_IP, SAFI_UNICAST>>]
SumRows == SelectSeq(last.out, LAMBDA o : o.k = "row")

IsIbgp(re) == re.type = ZEBRA_ROUTE_BGP /\ ZEBRA_FLAG_IBGP \in re.flags

\* The entries a row of the given name stands for: in the per-prefix
\* summary only the entries that have a nexthop.
RowEntries(name) ==
    {x \in EntriesOf(SumTable) :
        LET re == EntryAt(SumTable, x)
        IN  /\ SummaryCalled(TRUE) => Len(re.nexthop) >= 1
            /\ CASE name = "Totals" -> TRUE
                 [] name = "ibgp" -> IsIbgp(re)
                 [] name = "ebgp" -> re.type = ZEBRA_ROUTE_BGP /\ ~IsIbgp(re)
                 [] OTHER -> re.type = name}

\* The names of the rows a table gets, in the order of the route types.
RowNames ==
    LET Upto[i \in 0..Len(RouteTypes)] ==
            IF i = 0 THEN <<>>
            ELSE Upto[i - 1]
                 \o (IF RouteTypes[i] = ZEBRA_ROUTE_BGP
                     THEN IF RowEntries("ebgp") \cup RowEntries("ibgp") # {}
                          THEN <<"ebgp", "ibgp">> ELSE <<>>
                     ELSE IF RowEntries(RouteTypes[i]) # {}
                          THEN <<RouteTypes[i]>> ELSE <<>>)
    IN  Upto[Len(RouteTypes)] \o <<"Totals">>

\* The rows are those of RowNames, each with the number of its entries as
\* the route count.
RouteCountsRight ==
    /\ Len(SumRows) = Len(RowNames)
    /\ \A i \in 1..Len(SumRows) :
          /\ SumRows[i].name = RowNames[i]
          /\ SumRows[i].routes = Cardinality(RowEntries(RowNames[i]))

\* C19: in the per-route summary every entry is counted once in the total
\* and in one bucket (iBGP, or its protocol, eBGP for BGP without the
\* internal flag), and the FIB count of each bucket and of the total is the
\* number of its entries that are fib-installed.
C19_PerRouteCounts ==
    SummaryCalled(FALSE)
        => /\ RouteCountsRight
           /\ \A i \in 1..Len(SumRows) :
                 SumRows[i].fib =
                     Cardinality({x \in RowEntries(SumRows[i].name) :
                                     FibInstalled(EntryAt(SumTable, x))})

\* The part of C19 that holds: the route counts; and what the FIB column
\* holds, the number of selected entries.
C19_RoutesAndSelected ==
    SummaryCalled(FALSE)
        => /\ RouteCountsRight
           /\ \A i \in 1..Len(SumRows) :
                 SumRows[i].fib =
                     Cardinality({x \in RowEntries(SumRows[i].name) :
                                     ZEBRA_FLAG_SELECTED
                                         \in EntryAt(SumTable, x).flags})

C19_RoutesWitness ==
    /\ SummaryCalled(FALSE)
    /\ Cardinality(RowEntries("ibgp")) = 1
    /\ Cardinality(RowEntries("ebgp")) = 1
    /\ Len(SumRows) = 3

\* C20: in the per-prefix summary an entry counts as one route of the total
\* and of its bucket, and as one FIB route of both exactly when its first
\* nexthop has the FIB flag, however many nexthops it has; the eBGP row is
\* BGP minus iBGP in both columns.
C20_PerPrefixCounts ==
    SummaryCalled(TRUE)
        => /\ RouteCountsRight
           /\ \A i \in 1..Len(SumRows) :
                 SumRows[i].fib =
                     Cardinality({x \in RowEntries(SumRows[i].name) :
                         NEXTHOP_FLAG_FIB
                             \in EntryAt(SumTable, x).nexthop[1].flags})

\* A table with the static route of two nexthops, the second in the FIB,
\* and the internal BGP route.
C20_Witness ==
    /\ SummaryCalled(TRUE)
    /\ \E x \in RowEntries(ZEBRA_ROUTE_STATIC) :
          Len(EntryAt(SumTable, x).nexthop) = 2
    /\ Cardinality(RowEntries("ibgp")) = 1
    /\ \E i \in 1..Len(SumRows) :
          SumRows[i] = Row(ZEBRA_ROUTE_STATIC, 1, 0)
    /\ \E i \in 1..Len(SumRows) : SumRows[i] = Row("ebgp", 0, 0)

-----------------------------------------------------------------------------
(* C21, C22, C27: the two summaries of one table against each other, and   *)
(* their rows.                                                             *)

\* A summary of either mode ran on the IPv4 unicast table of the default
\* VRF.
AnySummaryCalled == SummaryCalled(FALSE) \/ SummaryCalled(TRUE)

\* The route total each aggregator prints for the table the command ran on.
TotalsRowOf(out) == out[Len(out)]
PerRouteTotal ==
    TotalsRowOf(vty_show_ip_route_summary(ShowContext(last.before),
                    VRF_DEFAULT_NAME, <<AFI_IP, SAFI_UNICAST>>).out).routes
PerPrefixTotal ==
    TotalsRowOf(vty_show_ip_route_summary_prefix(ShowContext(last.before),
                    VRF_DEFAULT_NAME, <<AFI_IP, SAFI_UNICAST>>).out).routes

SomeMultipath ==
    \E x \in EntriesOf(SumTable) : Len(EntryAt(SumTable, x).nexthop) >= 2

Nexthopless ==
    {x \in EntriesOf(SumTable) : Len(EntryAt(SumTable, x).nexthop) = 0}

\* C21 (amended): over the same table the per-route route total is the
\* per-prefix route total plus the number of entries that have no nexthop:
\* it is never smaller, the two are equal exactly when every entry has a
\* nexthop, and a second nexthop changes neither.
C21_TotalsByNexthopless ==
    AnySummaryCalled
        => /\ TotalsRowOf(last.out).routes
                 = (IF SummaryCalled(TRUE) THEN PerPrefixTotal ELSE PerRouteTotal)
           /\ PerRouteTotal = PerPrefixTotal + Cardinality(Nexthopless)

\* C21 as stated: the per-route total is at least the per-prefix total
\* when some route has 2 or more nexthops, and the two are equal when none
\* has.
C21_TotalsCompare ==
    AnySummaryCalled
        => IF SomeMultipath THEN PerRouteTotal >= PerPrefixTotal
           ELSE PerRouteTotal = PerPrefixTotal

\* A table of one route with a nexthop and one without, none multipath:
\* the per-route summary counts 2 and the per-prefix summary 1.
C21_Witness ==
    /\ AnySummaryCalled
    /\ ~SomeMultipath
    /\ Cardinality(Nexthopless) = 1
    /\ PerRouteTotal = 2
    /\ PerPrefixTotal = 1

\* A multipath route next to a single-path one: both totals are 2.
C21_EqualWitness ==
    /\ AnySummaryCalled
    /\ SomeMultipath
    /\ Nexthopless = {}
    /\ PerRouteTotal = 2
    /\ PerPrefixTotal = 2

C22_PrefixWitness ==
    /\ SummaryCalled(TRUE)
    /\ RowEntries("ebgp") # {}
    /\ RowEntries("ibgp") = {}
    /\ RowEntries(ZEBRA_ROUTE_STATIC) # {}
    /\ Len(SumRows) = 4
    /\ SumRows[3] = Row("ibgp", 0, 0)

\* The sum of a column over the bucket rows.
ColumnSum(routes) ==
    LET Upto[i \in 0..(Len(SumRows) - 1)] ==
            IF i = 0 THEN 0
            ELSE Upto[i - 1] + (IF routes THEN SumRows[i].routes
                                ELSE SumRows[i].fib)
    IN  Upto[Len(SumRows) - 1]

\* C27: in both summaries the Totals row is the sum of the bucket rows in
\* both columns, and in every row the FIB count is at most the route count
\* and neither is negative.
C27_TotalsAreSums ==
    AnySummaryCalled
        => /\ SumRows[Len(SumRows)].name = "Totals"
           /\ SumRows[Len(SumRows)].routes = ColumnSum(TRUE)
           /\ SumRows[Len(SumRows)].fib = ColumnSum(FALSE)
           /\ \A i \in 1..Len(SumRows) :
                 /\ 0 <= SumRows[i].fib
                 /\ SumRows[i].fib <= SumRows[i].routes

\* A per-prefix summary of internal and external BGP routes, one in the
\* FIB.
C27_Witness ==
    /\ SummaryCalled(TRUE)
    /\ Len(SumRows) = 3
    /\ SumRows[1] = Row("ebgp", 1, 0)
    /\ SumRows[2] = Row("ibgp", 1, 1)
    /\ SumRows[3] = Row("Totals", 2, 1)

-----------------------------------------------------------------------------
(* The age of a route entry, as the text line, the detail record and the   *)
(* JSON object of "show ip route" print it.                                *)

ONE_DAY_SECOND == 60 * 60 * 24
ONE_WEEK_SECOND == 60 * 60 * 24 * 7

\* gmtime() of the C library: the broken-down UTC time of t seconds after
\* 1970-01-01 00:00:00, of which the renderers read the second, the minute,
\* the hour and the day of the year (0 on 1 January).
DaysOfYear(year) ==
    IF year % 4 = 0 /\ (year % 100 # 0 \/ year % 400 = 0) THEN 366 ELSE 365
RECURSIVE YearDay(_, _)
YearDay(days, year) ==
    IF days < DaysOfYear(year) THEN days
    ELSE YearDay(days - DaysOfYear(year), year + 1)
gmtime(t) ==
    [tm_sec  |-> t % 60,
     tm_min  |-> (t \div 60) % 60,
     tm_hour |-> (t \div 3600) % 24,
     tm_yday |-> YearDay(t \div 86400, 1970)]

\* printf's %d and %02d of a number that is not negative.
FmtD(n) == ToString(n)
Fmt02D(n) == IF n < 10 THEN "0" \o ToString(n) ELSE ToString(n)

\* uptime_buf with the day test made "at most one day".
uptime_buf_DayInclusive(uptime) ==
    LET tm == gmtime(uptime)
    IN  IF uptime <= ONE_DAY_SECOND
        THEN <<Fmt02D(tm.tm_hour), ":", Fmt02D(tm.tm_min), ":",
               Fmt02D(tm.tm_sec)>>
        ELSE IF uptime < ONE_WEEK_SECOND
        THEN <<FmtD(tm.tm_yday), "d", Fmt02D(tm.tm_hour), "h",
               Fmt02D(tm.tm_min), "m">>
        ELSE <<Fmt02D(tm.tm_yday \div 7), "w",
               FmtD(tm.tm_yday - ((tm.tm_yday \div 7) * 7)), "d",
               Fmt02D(tm.tm_hour), "h">>

\* The age as the pieces the format strings put out: "%02d:%02d:%02d" below
\* one day, "%dd%02dh%02dm" below one week, "%02dw%dd%02dh" from one week.
\* The three renderers hold a copy each of these lines.
uptime_buf(uptime) ==
    LET tm == gmtime(uptime)
    IN  IF uptime < ONE_DAY_SECOND
        THEN <<Fmt02D(tm.tm_hour), ":", Fmt02D(tm.tm_min), ":",
               Fmt02D(tm.tm_sec)>>
        ELSE IF uptime < ONE_WEEK_SECOND
        THEN <<FmtD(tm.tm_yday), "d", Fmt02D(tm.tm_hour), "h",
               Fmt02D(tm.tm_min), "m">>
        ELSE <<Fmt02D(tm.tm_yday \div 7), "w",
               FmtD(tm.tm_yday - ((tm.tm_yday \div 7) * 7)), "d",
               Fmt02D(tm.tm_hour), "h">>

\* The protocols whose entries are printed with their age.
uptime_shown(type) == type \in {ZEBRA_ROUTE_OSPF, ZEBRA_ROUTE_BGP}

\* The end of a text line: ", <age>" for those protocols, then the newline.
vty_show_ip_route_uptime(type, uptime) ==
    (IF uptime_shown(type) THEN <<", ">> \o uptime_buf(uptime) ELSE <<>>)
        \o <<"\n">>

\* The "uptime" member of the entry's JSON object: absent for the other
\* protocols.
vty_show_ip_route_json_uptime(type, uptime) ==
    IF uptime_shown(type) THEN <<uptime_buf(uptime)>> ELSE <<>>

\* The "Last update" line of the detail record.
vty_show_ip_route_detail_uptime(type, uptime) ==
    IF uptime_shown(type)
    THEN <<"  Last update ">> \o uptime_buf(uptime) \o <<" ago\n">>
    ELSE <<>>

\* The ages the renderers are run on: the seconds around the minute, the
\* hour, the day and the week, and every full week up to MaxAgeWeeks with
\* some days and hours on top.
MaxAgeWeeks == 53
Ages ==
    {0, 1, 59, 60, 3599, 3600, 86399, 86400, 86401, 90000, 172800,
     604799, 604800, 604801}
        \cup {w * ONE_WEEK_SECOND + d * ONE_DAY_SECOND + h * 3600 + s :
                 w \in 1..MaxAgeWeeks, d \in {0, 1, 6}, h \in {0, 23},
                 s \in {0, 3599}}
AgeTypes == {ZEBRA_ROUTE_STATIC, ZEBRA_ROUTE_OSPF, ZEBRA_ROUTE_BGP}
Renderers == {"text", "json", "detail"}

\* One renderer prints an entry of some protocol whose re->uptime lies
\* uptime seconds before time(NULL).
show_uptime(renderer) ==
    /\ last = NoCall
    /\ \E type \in AgeTypes, uptime \in Ages :
          last' = [cmd |-> "uptime", renderer |-> renderer, type |-> type,
                   uptime |-> uptime, ret |-> CMD_SUCCESS,
                   out |-> CASE renderer = "text"
                                  -> vty_show_ip_route_uptime(type, uptime)
                             [] renderer = "json"
                                  -> vty_show_ip_route_json_uptime(type, uptime)
                             [] OTHER
                                  -> vty_show_ip_route_detail_uptime(type, uptime),
                   prev |-> NoCall]
    /\ UNCHANGED <<vrfs, ifs, mpls_enabled, stable, rib, globals>>

NextAge ==
    \/ show_uptime("text")
    \/ show_uptime("json")
    \/ show_uptime("detail")
    \/ vty_prompt

SpecAge == InitRead /\ [][NextAge]_vars

-----------------------------------------------------------------------------
(* C23, C29: the age of an entry in the three renderers.                   *)

\* A renderer printed an entry of a protocol that is shown with its age.
AgeShown == last # NoCall /\ last.cmd = "uptime" /\ uptime_shown(last.type)

\* The age pieces within what the renderer put out.
AgePieces ==
    CASE last.renderer = "text" -> SubSeq(last.out, 2, Len(last.out) - 1)
      [] last.renderer = "json" -> last.out[1]
      [] OTHER -> SubSeq(last.out, 2, Len(last.out) - 1)

RECURSIVE Joined(_)
Joined(pieces) ==
    IF pieces = <<>> THEN "" ELSE Head(pieces) \o Joined(Tail(pieces))

\* C23: in the text line, the detail record and the JSON object, an age
\* below 86400 seconds is rendered as HH:MM:SS, an age from 86400 to below
\* 604800 seconds as DdHHhMMm, and an age of 604800 seconds or more as
\* WWwDdHHh; 90000 seconds are rendered as 1d01h00m.
C23_AgeBuckets ==
    AgeShown
        => LET age == last.uptime
               b == AgePieces
           IN  /\ age < 86400
                     => b = <<Fmt02D(age \div 3600), ":",
                              Fmt02D((age % 3600) \div 60), ":",
                              Fmt02D(age % 60)>>
               /\ age >= 86400 /\ age < 604800
                     => b = <<FmtD(age \div 86400), "d",
                              Fmt02D((age % 86400) \div 3600), "h",
                              Fmt02D((age % 3600) \div 60), "m">>
               /\ age >= 604800
                     => /\ <<b[2], b[4], b[6]>> = <<"w", "d", "h">>
                        /\ b[5] = Fmt02D((age % 86400) \div 3600)
               /\ age = 90000 => Joined(b) = "1d01h00m"
               /\ age = 86399 => Joined(b) = "23:59:59"
               /\ age = 604799 => Joined(b) = "6d23h59m"

C23_Witness ==
    /\ AgeShown
    /\ last.renderer = "detail"
    /\ last.uptime = 90000
    /\ last.out = <<"  Last update ", "1", "d", "01", "h", "00", "m", " ago\n">>

C23_DayWitness ==
    /\ AgeShown
    /\ last.renderer = "text"
    /\ last.uptime = 86400
    /\ Joined(last.out) = ", 1d00h00m\n"

C23_WeekWitness ==
    /\ AgeShown
    /\ last.renderer = "json"
    /\ last.uptime = 604800
    /\ Joined(AgePieces) = "01w0d00h"

\* C29: an age of 604800 seconds or more is rendered with weeks*7 + days
\* equal to the whole days of the age, days within 0..6 and hours within
\* 0..23.
C29_WeekFields ==
    AgeShown /\ last.uptime >= 604800
        => \E w \in 0..(last.uptime \div 604800), d \in 0..6, h \in 0..23 :
              /\ AgePieces = <<Fmt02D(w), "w", FmtD(d), "d", Fmt02D(h), "h">>
              /\ w * 7 + d = last.uptime \div 86400

\* The fields have the stated ranges at every age.
C29_FieldRanges ==
    AgeShown /\ last.uptime >= 604800
        => \E w \in 0..(last.uptime \div 604800), d \in 0..6, h \in 0..23 :
              AgePieces = <<Fmt02D(w), "w", FmtD(d), "d", Fmt02D(h), "h">>

\* An entry that is 365 days old.
C29_YearWitness ==
    /\ AgeShown
    /\ last.uptime = 365 * 86400
    /\ Joined(AgePieces) = "00w0d00h"

-----------------------------------------------------------------------------
(* SpecHead: show ip route in text and in JSON over the tables of the       *)
(* default VRF and of a second VRF, with entries of one, two and no         *)
(* nexthops.                                                                *)

\* The largest RIB under SpecHead.
MaxHeadRoutes == 2

HeadPrefixes == {P4(10, 1, 0, 0, 16), P4(192, 168, 1, 0, 24)}

\* A static route with one nexthop, a BGP route with two, and an OSPF route
\* that came without a nexthop.
HeadEntries ==
    {RouteEntry(ZEBRA_ROUTE_STATIC, 0, 0, {ZEBRA_FLAG_SELECTED},
                {ROUTE_ENTRY_SELECTED_FIB}, <<Nexthop({NEXTHOP_FLAG_FIB})>>),
     RouteEntry(ZEBRA_ROUTE_BGP, 0, 0, {ZEBRA_FLAG_SELECTED},
                {ROUTE_ENTRY_SELECTED_FIB},
                <<Nexthop({NEXTHOP_FLAG_FIB}), Nexthop({})>>),
     RouteEntry(ZEBRA_ROUTE_OSPF, 0, 0, {}, {}, <<>>)}

\* "show ip route [vrf NAME] [static|ospf] [json]"
HeadLines ==
    {<<Kw("show"), Kw("ip"), Kw("route")>> \o v \o f \o j :
        v \in VrfWords, f \in {<<>>, <<Kw("static")>>, <<Kw("ospf")>>},
        j \in {<<>>, <<Kw("json")>>}}

NextHead ==
    \/ show_ip_route(HeadLines)
    \/ rib_add({<<AFI_IP, SAFI_UNICAST>>}, HeadPrefixes, HeadEntries,
               MaxHeadRoutes)
    \/ vrf_create
    \/ vty_prompt

SpecHead == InitRead /\ [][NextHead]_vars

-----------------------------------------------------------------------------
(* C26, C28: the sections of show ip route, and its two modes against each *)
(* other.                                                                  *)

\* "show ip route" is on the vty.
HeadCalled == last # NoCall /\ last.cmd = "show ip route"
HeadJson == last.argv[Len(last.argv)].text = "json"

\* The call of do_show_ip_route the command made for a VRF, if it made one,
\* and the entries of the VRF's table that pass the filter of the command.
HeadVisited(v) == \E j \in 1..Len(last.calls) : last.calls[j].vrf_name = v
HeadTable(v) == last.before[v].table[<<AFI_IP, SAFI_UNICAST>>]
HeadPassing(v) ==
    {x \in EntriesOf(HeadTable(v)) :
        /\ HeadVisited(v)
        /\ AllCriteriaHold(TheCall, x[1], EntryAt(HeadTable(v), x))}

\* Where the output has the table header of a VRF, the "VRF <name>:" header
\* of a VRF, and the entry lines of a VRF.
TableHeaders(v) ==
    {j \in 1..Len(last.out) :
        /\ last.out[j] = Text("SHOW_ROUTE_V4_HEADER")
        /\ IF j + 2 <= Len(last.out) /\ last.out[j + 1] = Text("VRF")
           THEN last.out[j + 2] = Text(v) ELSE v = VRF_DEFAULT_NAME}
VrfHeaders(v) ==
    {j \in 1..(Len(last.out) - 1) :
        last.out[j] = Text("VRF") /\ last.out[j + 1] = Text(v)}
EntryLines(v) ==
    {j \in 1..Len(last.out) :
        last.out[j].k = "route" /\ last.out[j].vrf = v}

\* C26: in text mode the table header of a VRF is printed at most once and
\* before every entry line of the VRF; the "VRF <name>:" header is printed
\* exactly when the VRF is not the default VRF and an entry of it passed
\* the filter, before every entry line; a VRF none of whose entries pass
\* adds nothing to the output; in JSON mode no header is printed.
C26_SectionOrder ==
    HeadCalled
        => IF HeadJson
           THEN \A j \in 1..Len(last.out) : last.out[j].k = "json"
           ELSE /\ \A v \in DOMAIN last.before :
                      /\ Cardinality(TableHeaders(v)) <= 1
                      /\ Cardinality(VrfHeaders(v)) <= 1
                      /\ \A l \in EntryLines(v) :
                            /\ \E h \in TableHeaders(v) : h < l
                            /\ v # VRF_DEFAULT_NAME
                                  => \E h \in VrfHeaders(v) : h < l
                      /\ VrfHeaders(v) # {}
                            <=> v # VRF_DEFAULT_NAME /\ HeadPassing(v) # {}
                      /\ TableHeaders(v) # {} <=> HeadPassing(v) # {}
                      /\ HeadPassing(v) = {} => EntryLines(v) = {}
                \* nothing but the sections of those VRFs
                /\ Len(last.out)
                      = Cardinality(UNION {TableHeaders(v) \cup EntryLines(v) :
                                              v \in DOMAIN last.before})
                        + 2 * Cardinality(UNION {VrfHeaders(v) :
                                              v \in DOMAIN last.before})

\* "show ip route vrf all" printed a section for the default VRF and one
\* for the second VRF, each with the lines of one entry.
C26_Witness ==
    /\ HeadCalled
    /\ ~HeadJson
    /\ Len(last.calls) = 2
    /\ TableHeaders(VRF_DEFAULT_NAME) # {}
    /\ VrfHeaders("red") # {}
    /\ Cardinality(EntryLines("red")) = 1
    /\ Cardinality(EntryLines(VRF_DEFAULT_NAME)) = 1

\* The filter passed the entries of one VRF only.
C26_SilentWitness ==
    /\ HeadCalled
    /\ ~HeadJson
    /\ Len(last.calls) = 2
    /\ EntriesOf(HeadTable(VRF_DEFAULT_NAME)) # {}
    /\ HeadPassing(VRF_DEFAULT_NAME) = {}
    /\ HeadPassing("red") # {}
    /\ Len(last.out) = 4

C26_JsonWitness ==
    /\ HeadCalled
    /\ HeadJson
    /\ Len(last.calls) = 2
    /\ HeadPassing("red") # {}
    /\ Len(last.out) = 2

\* What the call of the command on the default VRF writes in text mode and
\* in JSON mode, on the table the command ran on.
ModeOut(json) ==
    do_show_ip_route(ShowContext(last.before),
                     [TheCall EXCEPT !.use_json = json]).out
OneHeadCall ==
    /\ HeadCalled
    /\ Len(last.calls) = 1
    /\ TheCall.vrf_name = VRF_DEFAULT_NAME

\* The text lines of an entry, and its objects in the JSON output.
TextItems(x) ==
    {j \in 1..Len(ModeOut(FALSE)) :
        /\ ModeOut(FALSE)[j].k = "route"
        /\ <<ModeOut(FALSE)[j].p, ModeOut(FALSE)[j].i>> = x}
TextLineCount(x) ==
    IF TextItems(x) = {} THEN 0
    ELSE Len(ModeOut(FALSE)[CHOOSE j \in TextItems(x) : TRUE].lines)
JsonObjects(x) ==
    LET obj == ModeOut(TRUE)[1].obj
    IN  UNION {{obj[j][2][k] : k \in {k \in 1..Len(obj[j][2]) :
                                        obj[j][2][k].i = x[2]}} :
                  j \in {j \in 1..Len(obj) : obj[j][1] = x[1]}}

\* C28: over the same table and filter, the JSON mode has an object with N
\* nexthop objects for an entry exactly when the text mode has N lines for
\* that entry, for every N >= 0: an entry is in both outputs or in neither.
C28_SameEntries ==
    OneHeadCall
        => /\ last.out = ModeOut(HeadJson)
           /\ \A x \in EntriesOf(HeadTable(VRF_DEFAULT_NAME)) :
                 /\ TextItems(x) # {} <=> JsonObjects(x) # {}
                 /\ \A o \in JsonObjects(x) :
                       Len(o.nexthops) = TextLineCount(x)

\* The nexthop objects of an entry's JSON object are as many as the text
\* lines of the entry.
C28_LinesMatch ==
    OneHeadCall
        => /\ last.out = ModeOut(HeadJson)
           /\ \A x \in EntriesOf(HeadTable(VRF_DEFAULT_NAME)) :
                 /\ Cardinality(TextItems(x)) <= 1
                 /\ Cardinality(JsonObjects(x)) <= 1
                 /\ \A o \in JsonObjects(x) :
                       Len(o.nexthops) = TextLineCount(x)
                 /\ x \in HeadPassing(VRF_DEFAULT_NAME)
                       => /\ JsonObjects(x) # {}
                          /\ TextLineCount(x)
                                = Len(EntryAt(HeadTable(VRF_DEFAULT_NAME), x).nexthop)

\* A table with the route of two nexthops and the route of none: the
\* text has the header and two lines of the first, the JSON an object
\* for each.
C28_Witness ==
    /\ OneHeadCall
    /\ \E x, y \in EntriesOf(HeadTable(VRF_DEFAULT_NAME)) :
          /\ TextLineCount(x) = 2
          /\ JsonObjects(x) # {}
          /\ Len(EntryAt(HeadTable(VRF_DEFAULT_NAME), y).nexthop) = 0
          /\ TextItems(y) = {}
          /\ JsonObjects(y) # {}

-----------------------------------------------------------------------------
(* The global settings: the commands that set them, the commands that      *)
(* import a kernel table, and the configuration dump.  A command body is   *)
(* an operator from the globals and the matched tokens to the new globals, *)
(* what it wrote and what it returned.                                     *)

Done(g, out, ret) == [g |-> g, out |-> out, ret |-> ret]

\* strmatch(a, b): both set and equal.
strmatch(a, b) == a = b

\* multicast_mode_ipv4_set(mode), multicast_mode_ipv4_get()
multicast_mode_ipv4_set(g, mode) == [g EXCEPT !.ipv4_multicast_mode = mode]
multicast_mode_ipv4_get(g) == g.ipv4_multicast_mode

\* DEFUN (ip_multicast_mode): "ip multicast rpf-lookup-mode <urib-only|
\* mrib-only|mrib-then-urib|lower-distance|longer-prefix>"
ip_multicast_mode_body(g, argv) ==
    LET mode == argv[4].text
    IN  IF strmatch(mode, "urib-only")
        THEN Done(multicast_mode_ipv4_set(g, MCAST_URIB_ONLY), <<>>, CMD_SUCCESS)
        ELSE IF strmatch(mode, "mrib-only")
        THEN Done(multicast_mode_ipv4_set(g, MCAST_MRIB_ONLY), <<>>, CMD_SUCCESS)
        ELSE IF strmatch(mode, "mrib-then-urib")
        THEN Done(multicast_mode_ipv4_set(g, MCAST_MIX_MRIB_FIRST), <<>>,
                  CMD_SUCCESS)
        ELSE IF strmatch(mode, "lower-distance")
        THEN Done(multicast_mode_ipv4_set(g, MCAST_MIX_DISTANCE), <<>>,
                  CMD_SUCCESS)
        ELSE IF strmatch(mode, "longer-prefix")
        THEN Done(multicast_mode_ipv4_set(g, MCAST_MIX_PFXLEN), <<>>,
                  CMD_SUCCESS)
        ELSE Done(g, <<"Invalid mode specified\n">>, CMD_WARNING_CONFIG_FAILED)

\* DEFUN (no_ip_multicast_mode)
no_ip_multicast_mode_body(g, argv) ==
    Done(multicast_mode_ipv4_set(g, MCAST_NO_CONFIG), <<>>, CMD_SUCCESS)

\* DEFUN (ip_nht_default_route), DEFUN (no_ip_nht_default_route)
ip_nht_default_route_body(g, argv) ==
    IF g.zebra_rnh_ip_default_route # 0 THEN Done(g, <<>>, CMD_SUCCESS)
    ELSE Done([g EXCEPT !.zebra_rnh_ip_default_route = 1], <<>>, CMD_SUCCESS)
no_ip_nht_default_route_body(g, argv) ==
    IF g.zebra_rnh_ip_default_route = 0 THEN Done(g, <<>>, CMD_SUCCESS)
    ELSE Done([g EXCEPT !.zebra_rnh_ip_default_route = 0], <<>>, CMD_SUCCESS)

\* DEFUN (ipv6_nht_default_route), DEFUN (no_ipv6_nht_default_route)
ipv6_nht_default_route_body(g, argv) ==
    IF g.zebra_rnh_ipv6_default_route # 0 THEN Done(g, <<>>, CMD_SUCCESS)
    ELSE Done([g EXCEPT !.zebra_rnh_ipv6_default_route = 1], <<>>, CMD_SUCCESS)
no_ipv6_nht_default_route_body(g, argv) ==
    IF g.zebra_rnh_ipv6_default_route = 0 THEN Done(g, <<>>, CMD_SUCCESS)
    ELSE Done([g EXCEPT !.zebra_rnh_ipv6_default_route = 0], <<>>, CMD_SUCCESS)

\* DEFUN (allow_external_route_update),
\* DEFUN (no_allow_external_route_update)
allow_external_route_update_body(g, argv) ==
    Done([g EXCEPT !.allow_delete = 1], <<>>, CMD_SUCCESS)
no_allow_external_route_update_body(g, argv) ==
    Done([g EXCEPT !.allow_delete = 0], <<>>, CMD_SUCCESS)

\* config_write_protocol with the words of the two mixed modes exchanged.
config_write_protocol_MixSwapped(g) ==
    LET ipv4_multicast_mode == multicast_mode_ipv4_get(g)
    IN  (IF g.allow_delete # 0
         THEN <<"allow-external-route-update\n">> ELSE <<>>)
        \o (IF g.zebra_rnh_ip_default_route # 0
            THEN <<"ip nht resolve-via-default\n">> ELSE <<>>)
        \o (IF g.zebra_rnh_ipv6_default_route # 0
            THEN <<"ipv6 nht resolve-via-default\n">> ELSE <<>>)
        \o (IF ipv4_multicast_mode # MCAST_NO_CONFIG
            THEN <<"ip multicast rpf-lookup-mode "
                   \o (IF ipv4_multicast_mode = MCAST_URIB_ONLY
                       THEN "urib-only"
                       ELSE IF ipv4_multicast_mode = MCAST_MRIB_ONLY
                       THEN "mrib-only"
                       ELSE IF ipv4_multicast_mode = MCAST_MIX_MRIB_FIRST
                       THEN "lower-distance"
                       ELSE IF ipv4_multicast_mode = MCAST_MIX_DISTANCE
                       THEN "mrib-then-urib"
                       ELSE "longer-prefix")
                   \o "\n">>
            ELSE <<>>)

\* config_write_protocol(vty): the lines it writes.  No route-map is
\* configured for a protocol, so zebra_routemap_config_write_protocol adds
\* none.
config_write_protocol(g) ==
    LET ipv4_multicast_mode == multicast_mode_ipv4_get(g)
    IN  (IF g.allow_delete # 0
         THEN <<"allow-external-route-update\n">> ELSE <<>>)
        \o (IF g.zebra_rnh_ip_default_route # 0
            THEN <<"ip nht resolve-via-default\n">> ELSE <<>>)
        \o (IF g.zebra_rnh_ipv6_default_route # 0
            THEN <<"ipv6 nht resolve-via-default\n">> ELSE <<>>)
        \o (IF ipv4_multicast_mode # MCAST_NO_CONFIG
            THEN <<"ip multicast rpf-lookup-mode "
                   \o (IF ipv4_multicast_mode = MCAST_URIB_ONLY
                       THEN "urib-only"
                       ELSE IF ipv4_multicast_mode = MCAST_MRIB_ONLY
                       THEN "mrib-only"
                       ELSE IF ipv4_multicast_mode = MCAST_MIX_MRIB_FIRST
                       THEN "mrib-then-urib"
                       ELSE IF ipv4_multicast_mode = MCAST_MIX_DISTANCE
                       THEN "lower-distance"
                       ELSE "longer-prefix")
                   \o "\n">>
            ELSE <<>>)

\* The command matcher on a line of a configuration file: the body of the
\* command whose grammar the line matches, run on the line's tokens.
ModeWords ==
    {"urib-only", "mrib-only", "mrib-then-urib", "lower-distance",
     "longer-prefix"}
CMD_ERR_NO_MATCH == "CMD_ERR_NO_MATCH"
config_from_line(g, line) ==
    CASE line = "allow-external-route-update\n"
             -> allow_external_route_update_body(g,
                    <<Kw("allow-external-route-update")>>)
      [] line = "ip nht resolve-via-default\n"
             -> ip_nht_default_route_body(g,
                    <<Kw("ip"), Kw("nht"), Kw("resolve-via-default")>>)
      [] line = "ipv6 nht resolve-via-default\n"
             -> ipv6_nht_default_route_body(g,
                    <<Kw("ipv6"), Kw("nht"), Kw("resolve-via-default")>>)
      [] \E w \in ModeWords :
             line = "ip multicast rpf-lookup-mode " \o w \o "\n"
             -> LET w == CHOOSE w \in ModeWords :
                             line = "ip multicast rpf-lookup-mode " \o w \o "\n"
                IN  ip_multicast_mode_body(g,
                        <<Kw("ip"), Kw("multicast"), Kw("rpf-lookup-mode"),
                          Kw(w)>>)
      [] OTHER -> Done(g, <<>>, CMD_ERR_NO_MATCH)

\* The lines of a configuration file read in their order.
RECURSIVE config_from_file(_, _)
config_from_file(g, lines) ==
    IF lines = <<>> THEN g
    ELSE config_from_file(config_from_line(g, Head(lines)).g, Tail(lines))

\* strtoul(s, NULL, 10) on the numbers of the model's command lines.
strtoul(s) ==
    CASE s = "1" -> 1 [] s = "2" -> 2 [] s = "10" -> 10 [] s = "20" -> 20
      [] s = "252" -> 252 [] s = "255" -> 255 [] OTHER -> 0

\* is_zebra_valid_kernel_table(table_id) on Linux: no table beyond
\* ZEBRA_KERNEL_TABLE_MAX, and none of RT_TABLE_UNSPEC, RT_TABLE_LOCAL and
\* RT_TABLE_COMPAT.
is_zebra_valid_kernel_table(table_id) ==
    table_id <= 252 /\ table_id \notin {0, 255, 252}

\* is_zebra_main_routing_table(table_id): RT_TABLE_MAIN or the table made
\* the default one.
is_zebra_main_routing_table(g, table_id) ==
    table_id = 254 \/ table_id = g.rtm_table_default

\* XSTRDUP(MTYPE_ROUTE_MAP_NAME, ...) and XFREE(MTYPE_ROUTE_MAP_NAME, ...)
XSTRDUP(g) == [g EXCEPT !.route_map_names = @ + 1]
XFREE(g) == [g EXCEPT !.route_map_names = @ - 1]

ZEBRA_TABLE_DISTANCE_DEFAULT == 15

\* DEFUN (ip_zebra_import_table_distance): "ip import-table (1-252)
\* [distance (1-255)] [route-map WORD]".  zebra_import_table keeps a copy
\* of its own of the route-map name and returns 0.
ip_zebra_import_table_distance_body(g, argv) ==
    LET argc == Len(argv)
        table_id == strtoul(argv[3].arg)
        rmap == strmatch(argv[argc - 1].text, "route-map")
        g1 == IF rmap THEN XSTRDUP(g) ELSE g
        distance == IF argc = 7 \/ (argc = 5 /\ ~rmap)
                    THEN strtoul(argv[5].arg)
                    ELSE ZEBRA_TABLE_DISTANCE_DEFAULT
    IN  IF ~is_zebra_valid_kernel_table(table_id)
        THEN Done(g1, <<"Invalid routing table ID, Must be in range 1-252\n">>,
                  CMD_WARNING)
        ELSE IF is_zebra_main_routing_table(g1, table_id)
        THEN Done(g1, <<"Invalid routing table ID, Must be non-default table\n">>,
                  CMD_WARNING)
        ELSE Done(IF rmap THEN XFREE(g1) ELSE g1,
                  <<[fn |-> "zebra_import_table", table_id |-> table_id,
                     distance |-> distance, rmap |-> rmap]>>,
                  CMD_SUCCESS)

\* A command on the globals is one step; last keeps the command line, the
\* globals it ran on, what it wrote and what it returned.
GlobalInvoke(cmd, argv, d) ==
    /\ globals' = d.g
    /\ last' = [cmd |-> cmd, argv |-> argv, before |-> globals,
                ret |-> d.ret, out |-> d.out, prev |-> Prev(last)]
    /\ UNCHANGED <<vrfs, ifs, mpls_enabled, stable, rib>>

ModeTokens ==
    {Kw(w) : w \in ModeWords}
        \cup {Tok("urib-only", "urib"), Tok("lower-distance", "lo")}

ip_multicast_mode ==
    /\ last = NoCall
    /\ \E t \in ModeTokens :
          LET argv == <<Kw("ip"), Kw("multicast"), Kw("rpf-lookup-mode"), t>>
          IN  GlobalInvoke("ip_multicast_mode", argv,
                           ip_multicast_mode_body(globals, argv))

no_ip_multicast_mode ==
    /\ last = NoCall
    /\ \E m \in {<<>>} \cup {<<t>> : t \in ModeTokens} :
          LET argv == <<Kw("no"), Kw("ip"), Kw("multicast"),
                        Kw("rpf-lookup-mode")>> \o m
          IN  GlobalInvoke("no_ip_multicast_mode", argv,
                           no_ip_multicast_mode_body(globals, argv))

nht_default_route ==
    /\ last = NoCall
    /\ \E ip \in {"ip", "ipv6"}, no \in BOOLEAN :
          LET argv == (IF no THEN <<Kw("no")>> ELSE <<>>)
                          \o <<Kw(ip), Kw("nht"), Kw("resolve-via-default")>>
          IN  GlobalInvoke("nht_default_route", argv,
                  CASE ip = "ip" /\ ~no -> ip_nht_default_route_body(globals, argv)
                    [] ip = "ip" /\ no -> no_ip_nht_default_route_body(globals, argv)
                    [] ip = "ipv6" /\ ~no
                           -> ipv6_nht_default_route_body(globals, argv)
                    [] OTHER -> no_ipv6_nht_default_route_body(globals, argv))

allow_external_route_update ==
    /\ last = NoCall
    /\ \E no \in BOOLEAN :
          LET argv == (IF no THEN <<Kw("no")>> ELSE <<>>)
                          \o <<Kw("allow-external-route-update")>>
          IN  GlobalInvoke("allow_external_route_update", argv,
                  IF no THEN no_allow_external_route_update_body(globals, argv)
                  ELSE allow_external_route_update_body(globals, argv))

\* "write terminal": the configuration is written, at the prompt or right
\* after a command.
write_config_protocol ==
    /\ last = NoCall \/ last.cmd # "config_write_protocol"
    /\ GlobalInvoke("config_write_protocol", <<>>,
                    Done(globals, config_write_protocol(globals), CMD_SUCCESS))

\* "table TABLENO": the table becomes the default one.
config_table ==
    /\ last = NoCall
    /\ \E t \in {0, 10} :
          /\ t # globals.rtm_table_default
          /\ GlobalInvoke("config_table", <<Kw("table"), Tok("TABLENO", "10")>>,
                          Done([globals EXCEPT !.rtm_table_default = t], <<>>,
                               CMD_SUCCESS))

\* The most MTYPE_ROUTE_MAP_NAME allocations the model lets be held.
MaxRouteMapNames == 2

ImportLines ==
    {<<Kw("ip"), Kw("import-table"), Tok("(1-252)", t)>> \o d \o r :
        t \in {"1", "2", "10", "252"},
        d \in {<<>>} \cup {<<Kw("distance"), Tok("(1-255)", n)>> :
                               n \in {"20", "255"}},
        r \in {<<>>} \cup {<<Kw("route-map"), Tok("WORD", w)>> :
                               w \in {"RM", "route-map"}}}

ip_zebra_import_table_distance ==
    /\ last = NoCall
    /\ globals.route_map_names < MaxRouteMapNames
    /\ \E argv \in ImportLines :
          GlobalInvoke("ip_zebra_import_table_distance", argv,
                       ip_zebra_import_table_distance_body(globals, argv))

\* SpecConf: the commands on the global settings and the dump of them.
NextConf ==
    \/ ip_multicast_mode
    \/ no_ip_multicast_mode
    \/ nht_default_route
    \/ allow_external_route_update
    \/ write_config_protocol
    \/ vty_prompt

SpecConf == InitRead /\ [][NextConf]_vars

\* SpecImport: "ip import-table" with the default table set and unset.
NextImport ==
    \/ ip_zebra_import_table_distance
    \/ config_table
    \/ vty_prompt

SpecImport == InitRead /\ [][NextImport]_vars

-----------------------------------------------------------------------------
(* C25, C30: the dump of the global settings, and the route-map name of    *)
(* "ip import-table".                                                      *)

DumpCalled == last # NoCall /\ last.cmd = "config_write_protocol"
ConfigFields ==
    {"allow_delete", "zebra_rnh_ip_default_route",
     "zebra_rnh_ipv6_default_route", "ipv4_multicast_mode"}
Dumped(line) == \E j \in 1..Len(last.out) : last.out[j] = line
ModeLines == {"ip multicast rpf-lookup-mode " \o w \o "\n" : w \in ModeWords}

\* C25: after any sequence of the multicast mode command and its negation,
\* allow-external-route-update and its negation and the two nht
\* resolve-via-default commands and their negations, the lines that
\* config_write_protocol writes, read as commands from the default
\* settings, give the current settings; the mode line names the mode set
\* last and is missing after the negation, and the line of a flag is there
\* exactly when the flag is set.
C25_DumpRoundTrip ==
    DumpCalled
        => /\ \A f \in ConfigFields :
                 config_from_file(NoConfig, last.out)[f] = globals[f]
           /\ \A j \in 1..Len(last.out) :
                 config_from_line(NoConfig, last.out[j]).ret = CMD_SUCCESS
           /\ Dumped("allow-external-route-update\n") <=> globals.allow_delete = 1
           /\ Dumped("ip nht resolve-via-default\n")
                 <=> globals.zebra_rnh_ip_default_route = 1
           /\ Dumped("ipv6 nht resolve-via-default\n")
                 <=> globals.zebra_rnh_ipv6_default_route = 1
           /\ Cardinality({j \in 1..Len(last.out) : last.out[j] \in ModeLines})
                 = (IF globals.ipv4_multicast_mode = MCAST_NO_CONFIG
                    THEN 0 ELSE 1)
           /\ Len(last.out)
                 = globals.allow_delete + globals.zebra_rnh_ip_default_route
                   + globals.zebra_rnh_ipv6_default_route
                   + (IF globals.ipv4_multicast_mode = MCAST_NO_CONFIG
                      THEN 0 ELSE 1)
           /\ last.prev # NoCall /\ last.prev.cmd = "ip_multicast_mode"
                 => Dumped("ip multicast rpf-lookup-mode "
                              \o last.prev.argv[4].text \o "\n")
           /\ last.prev # NoCall /\ last.prev.cmd = "no_ip_multicast_mode"
                 => \A l \in ModeLines : ~Dumped(l)

\* The dump right after "ip multicast rpf-lookup-mode lo", with the
\* external updates allowed.
C25_Witness ==
    /\ DumpCalled
    /\ last.prev # NoCall
    /\ last.prev.cmd = "ip_multicast_mode"
    /\ last.prev.argv[4].arg = "lo"
    /\ last.out = <<"allow-external-route-update\n",
                    "ip multicast rpf-lookup-mode lower-distance\n">>

\* The dump right after the mode was unset, with the three flags set.
C25_UnsetWitness ==
    /\ DumpCalled
    /\ last.prev # NoCall
    /\ last.prev.cmd = "no_ip_multicast_mode"
    /\ last.prev.before.ipv4_multicast_mode = MCAST_MIX_PFXLEN
    /\ Len(last.out) = 3

ImportCalled ==
    last # NoCall /\ last.cmd = "ip_zebra_import_table_distance"
ImportHasRmap == last.argv[Len(last.argv) - 1].text = "route-map"

\* C30: the copy of the route-map name that "ip import-table" allocates is
\* released on every exit path: after the command, for an invalid table
\* id, for the id of the main table and after zebra_import_table, nothing
\* that the command allocated is held.
C30_NothingHeld ==
    ImportCalled => globals.route_map_names = last.before.route_map_names

\* After the call of zebra_import_table nothing is held.
C30_ReleasedAfterImport ==
    ImportCalled /\ last.ret = CMD_SUCCESS
        => globals.route_map_names = last.before.route_map_names

\* "ip import-table 252 route-map RM": the warning, and the copy is held.
C30_LeakWitness ==
    /\ ImportCalled
    /\ ImportHasRmap
    /\ last.argv[3].arg = "252"
    /\ last.ret = CMD_WARNING
    /\ globals.route_map_names = last.before.route_map_names + 1

\* "ip import-table 10 route-map RM" with table 10 the default table.
C30_MainTableWitness ==
    /\ ImportCalled
    /\ ImportHasRmap
    /\ last.argv[3].arg = "10"
    /\ last.before.rtm_table_default = 10
    /\ last.ret = CMD_WARNING
    /\ globals.route_map_names = last.before.route_map_names + 1

-----------------------------------------------------------------------------
(* The dump of the static routes.  A line is the sequence of its words.    *)

\* inet_ntoa(addr), and inet_ntop(family, addr, ...) on the addresses of
\* the model.
inet_ntoa(addr) ==
    ToString(addr[1]) \o "." \o ToString(addr[2]) \o "."
        \o ToString(addr[3]) \o "." \o ToString(addr[4])
inet_ntop(family, addr) ==
    IF family = AF_INET THEN inet_ntoa(addr)
    ELSE CASE addr = V6(32, 1, 13, 184, <<0, 0>>) -> "2001:db8::"
           [] addr = V6(32, 1, 13, 184, <<0, 1>>) -> "2001:db8::1"
           [] addr = V6(32, 1, 13, 185, <<0, 0>>) -> "2001:db9::"
           [] OTHER -> "::"

\* prefix2str(p, ...), and srcdest_rnode2str(rn, ...): the destination,
\* and "from" with the source prefix of a node that has one.
prefix2str(p) == inet_ntop(p.family, p.addr) \o "/" \o ToString(p.prefixlen)
srcdest_rnode2str(p, src_p) ==
    IF src_p = NoPrefix THEN <<prefix2str(p)>>
    ELSE <<prefix2str(p), "from", prefix2str(src_p)>>

\* ifindex2ifname(ifindex, vrf_id): the name of the interface of that
\* index in the VRF, "unknown" when there is none.
ifindex2ifname(ifindex, vrf_id, e) ==
    LET named == {x \in e.ifs : x[1] = vrf_id /\ KernelIfIndex(x[2]) = ifindex}
    IN  IF named = {} THEN "unknown" ELSE (CHOOSE x \in named : TRUE)[2]

\* zvrf_name(zvrf) of the VRF of that id.
zvrf_name(vrf_id, e) ==
    CHOOSE n \in {VRF_DEFAULT_NAME} \cup e.vrfs : VrfIdOf(n) = vrf_id

\* mpls_label2str(num_labels, labels, buf, len, 0)
RECURSIVE mpls_label2str(_)
mpls_label2str(labels) ==
    IF Len(labels) = 1 THEN ToString(labels[1])
    ELSE ToString(Head(labels)) \o "/" \o mpls_label2str(Tail(labels))

\* The body of the loops of static_config: the line of one descriptor.
static_config_line(si, e, cmd) ==
    <<cmd>> \o srcdest_rnode2str(si.p, si.src_p)
        \o (CASE si.type = STATIC_IPV4_GATEWAY -> <<inet_ntoa(si.gate)>>
              [] si.type = STATIC_IPV6_GATEWAY -> <<inet_ntop(AF_INET6, si.gate)>>
              [] si.type = STATIC_IFINDEX -> <<si.ifname>>
              [] si.type = STATIC_BLACKHOLE ->
                     IF CHECK_FLAG(si.flags, ZEBRA_FLAG_REJECT)
                     THEN <<"reject">> ELSE <<"Null0">>
              [] si.type = STATIC_IPV4_GATEWAY_IFINDEX ->
                     <<inet_ntop(AF_INET, si.gate),
                       ifindex2ifname(si.ifindex, si.vrf_id, e)>>
              [] si.type = STATIC_IPV6_GATEWAY_IFINDEX ->
                     <<inet_ntop(AF_INET6, si.gate),
                       ifindex2ifname(si.ifindex, si.vrf_id, e)>>)
        \o (IF si.type # STATIC_BLACKHOLE
            THEN (IF CHECK_FLAG(si.flags, ZEBRA_FLAG_REJECT)
                  THEN <<"reject">> ELSE <<>>)
                 \o (IF CHECK_FLAG(si.flags, ZEBRA_FLAG_BLACKHOLE)
                     THEN <<"blackhole">> ELSE <<>>)
            ELSE <<>>)
        \o (IF si.tag # 0 THEN <<"tag", ToString(si.tag)>> ELSE <<>>)
        \o (IF si.distance # ZEBRA_STATIC_DISTANCE_DEFAULT
            THEN <<ToString(si.distance)>> ELSE <<>>)
        \o (IF si.vrf_id # VRF_DEFAULT
            THEN <<"vrf", zvrf_name(si.vrf_id, e)>> ELSE <<>>)
        \o (IF Len(si.snh_label) # 0
            THEN <<"label", mpls_label2str(si.snh_label)>> ELSE <<>>)

\* static_config(vty, afi, safi, cmd): a line per descriptor of the static
\* tables of that (afi, safi) of all VRFs.  The lines are kept as a set:
\* no two descriptors of a table have the same line.
static_config(tbl, e, afi, safi, cmd) ==
    {static_config_line(si, e, cmd) :
        si \in {d \in tbl : d.afi = afi /\ d.safi = safi}}

\* zebra_ip_config(vty), without the import tables.
zebra_ip_config(tbl, e) ==
    static_config(tbl, e, AFI_IP, SAFI_UNICAST, "ip route")
        \cup static_config(tbl, e, AFI_IP, SAFI_MULTICAST, "ip mroute")
        \cup static_config(tbl, e, AFI_IP6, SAFI_UNICAST, "ipv6 route")

\* The command matcher on a line of the dump: the words after the
\* destination (and the source) up to the first option are the nexthop, a
\* flag keyword, an address or else an interface name; then come "tag" and
\* a number, a number alone (the distance), "vrf" and a name, "label" and
\* the labels.
WordAfter(w, key) ==
    IF \E i \in 1..(Len(w) - 1) : w[i] = key
    THEN w[(CHOOSE i \in 1..(Len(w) - 1) : w[i] = key) + 1]
    ELSE NULL
static_line_args(w) ==
    LET afi == IF w[1] = "ipv6 route" THEN AFI_IP6 ELSE AFI_IP
        from == Len(w) >= 4 /\ w[3] = "from"
        k == IF from THEN 5 ELSE 3
        IsOption(i) ==
            \/ w[i] \in {"tag", "vrf", "label"}
            \/ atoi(w[i]) # 0
        last_nh == IF k + 1 <= Len(w) /\ ~IsOption(k + 1) THEN k + 1 ELSE k
        nh == {w[i] : i \in k..last_nh}
        flags == nh \cap {"reject", "blackhole"}
        gates == {x \in nh \ flags : inet_pton(afi2family(afi), x).ret = 1}
        names == (nh \ flags) \ gates
        One(S) == IF S = {} THEN NULL ELSE CHOOSE x \in S : TRUE
        dists == {i \in (last_nh + 1)..Len(w) :
                     /\ atoi(w[i]) # 0
                     /\ w[i - 1] \notin {"tag", "vrf", "label"}}
    IN  [cmd |-> w[1], afi |-> afi,
         safi |-> IF w[1] = "ip mroute" THEN SAFI_MULTICAST ELSE SAFI_UNICAST,
         a |-> Args(NULL, w[2], NULL, IF from THEN w[4] ELSE NULL,
                    One(gates), One(names), One(flags),
                    WordAfter(w, "tag"),
                    IF dists = {} THEN NULL ELSE w[CHOOSE i \in dists : TRUE],
                    WordAfter(w, "vrf"), WordAfter(w, "label"))]

\* The lines of a dump read as commands, one after the other.
RECURSIVE static_from_file(_, _, _)
static_from_file(lines, e, tbl) ==
    IF lines = {} THEN tbl
    ELSE LET w == CHOOSE w \in lines : TRUE
             l == static_line_args(w)
         IN  static_from_file(lines \ {w}, e,
                 zebra_static_route(l.afi, l.safi, l.a, e, tbl).stable)

\* "write terminal": the static routes are written.
write_zebra_ip_config ==
    /\ last = NoCall
    /\ stable # {}
    /\ last' = [cmd |-> "zebra_ip_config", before |-> stable, e |-> Env,
                ret |-> CMD_SUCCESS, out |-> zebra_ip_config(stable, Env),
                prev |-> NoCall]
    /\ UNCHANGED <<vrfs, ifs, mpls_enabled, stable, rib, globals>>

\* SpecDump: static routes of every nexthop type are configured, with
\* interfaces that exist and that do not, and the configuration is written.
MaxStaticDump == 2

DumpIn4 ==
    [negate : {NULL}, dest : {"10.0.0.0/8"}, mask : {NULL}, src : {NULL},
     gate : {NULL, "192.0.2.1"}, ifname : {NULL, "Null0", "eth0", "eth1"},
     flag : {NULL, "reject", "blackhole"},
     tag : {NULL}, distance : {NULL}, vrf : {NULL}, label : {NULL}]
    \cup
    [negate : {NULL}, dest : {"10.1.2.3"}, mask : {"255.0.0.0"}, src : {NULL},
     gate : {"192.0.2.2"}, ifname : {NULL}, flag : {NULL},
     tag : {"7"}, distance : {"5"}, vrf : {NULL, "red"}, label : {NULL, "16"}]

DumpIn6 ==
    [negate : {NULL}, dest : {"2001:db8::1/32"}, mask : {NULL},
     src : {NULL, "2001:db9::/32"},
     gate : {NULL, "2001:db8::1"}, ifname : {NULL, "eth0"}, flag : {NULL},
     tag : {NULL}, distance : {NULL}, vrf : {NULL}, label : {NULL}]

DumpInM ==
    [negate : {NULL}, dest : {"10.0.0.0/8"},
     gate : {NULL, "192.0.2.1"}, ifname : {NULL, "eth1"},
     distance : {NULL, "5"}]

\* The interfaces are those present before the first static route is
\* configured: what happens to a descriptor when its interface appears
\* later is outside zebra_vty.c.
if_add_at_start ==
    /\ stable = {}
    /\ if_add

NextDump ==
    \/ ip_route(DumpIn4, MaxStaticDump, FALSE)
    \/ ipv6_route(DumpIn6, MaxStaticDump, FALSE)
    \/ ip_mroute_dist(DumpInM, MaxStaticDump, FALSE)
    \/ write_zebra_ip_config
    \/ if_add_at_start
    \/ vrf_create
    \/ vty_prompt

SpecDump == Init /\ [][NextDump]_vars

-----------------------------------------------------------------------------
(* C24: the dump of the static routes read back.                           *)

StaticDumped == last # NoCall /\ last.cmd = "zebra_ip_config"

\* The descriptor a line adds to an empty table.
LineAdds(w) ==
    LET l == static_line_args(w)
    IN  zebra_static_route(l.afi, l.safi, l.a, last.e, {})

\* The descriptors with a gateway and an interface that the interface table
\* does not hold under the kept name and index.
Unresolved(tbl, e) ==
    {d \in tbl :
        /\ d.type \in {STATIC_IPV4_GATEWAY_IFINDEX, STATIC_IPV6_GATEWAY_IFINDEX}
        /\ ifindex2ifname(d.ifindex, d.vrf_id, e) # d.ifname}

\* C24: every line that static_config writes for a static table built by
\* successful configuration calls is a command that, on an empty table with
\* the same interfaces, VRFs and MPLS state, adds a descriptor of the same
\* identity, type, flags, tag, distance, VRF and labels as a descriptor of
\* the table, and the whole dump read back gives the table again, the
\* descriptors whose interface was not found when they were added
\* included.
C24_DumpRoundTrip ==
    StaticDumped
        => /\ \A w \in last.out :
                 /\ LineAdds(w).ret = CMD_SUCCESS
                 /\ \E d \in last.before :
                       /\ LineAdds(w).stable = {d}
                       /\ static_config_line(d, last.e, w[1]) = w
           /\ static_from_file(last.out, last.e, {}) = last.before

\* The same for the tables whose gateway-and-interface descriptors all
\* have their interface in the interface table.
C24_RoundTripResolved ==
    StaticDumped /\ Unresolved(last.before, last.e) = {}
        => /\ \A w \in last.out :
                 /\ LineAdds(w).ret = CMD_SUCCESS
                 /\ \E d \in last.before :
                       /\ LineAdds(w).stable = {d}
                       /\ static_config_line(d, last.e, w[1]) = w
           /\ static_from_file(last.out, last.e, {}) = last.before

\* Every line adds a descriptor that agrees with one of the table in all
\* but the interface name.
C24_LineAddsAlike ==
    StaticDumped
        => \A w \in last.out :
              /\ LineAdds(w).ret = CMD_SUCCESS
              /\ \E d \in last.before, n \in LineAdds(w).stable :
                    /\ LineAdds(w).stable = {n}
                    /\ static_config_line(d, last.e, w[1]) = w
                    /\ [n EXCEPT !.ifname = d.ifname] = d

\* "ip route 10.0.0.0/8 192.0.2.1 eth1" with no interface eth1 is written
\* as "ip route 10.0.0.0/8 192.0.2.1 unknown".
C24_UnknownWitness ==
    /\ StaticDumped
    /\ \E d \in last.before :
          /\ d.type = STATIC_IPV4_GATEWAY_IFINDEX
          /\ d.ifindex = IFINDEX_DELETED
          /\ d.ifname = "eth1"
    /\ <<"ip route", "10.0.0.0/8", "192.0.2.1", "unknown">> \in last.out

\* A dump of two lines, one with all the options, read back to the table.
C24_ResolvedWitness ==
    /\ StaticDumped
    /\ Unresolved(last.before, last.e) = {}
    /\ <<"ip route", "10.0.0.0/8", "192.0.2.2", "tag", "7", "5", "vrf", "red",
         "label", "16">> \in last.out
    /\ <<"ip route", "10.0.0.0/8", "192.0.2.1", "eth0">> \in last.out
    /\ static_from_file(last.out, last.e, {}) = last.before

=============================================================================
